---- MODULE Spec2Model ----
(***************************************************************************)
(* A model of the CivitAI download client (src/modules/CivitaiAPI.py) and  *)
(* of the tunnel supervisor (src/modules/TunnelHub.py).                    *)
(*                                                                         *)
(* Specifications of the module: SpecApi, the cached and retried GET;      *)
(* SpecEv, version-id resolution; SpecDl, the streaming download;          *)
(* SpecBatch, the batch coordinator; SpecTun, tunnel registration, start,  *)
(* URL extraction and teardown; SpecStart, start() and stop() called from  *)
(* different threads; SpecHealth, the health monitor; SpecCfg, the         *)
(* configuration add_tunnel stores; SpecUrl, _process_url.                 *)
(* Each keeps the variables of the other parts at their initial values.    *)
(*                                                                         *)
(* Text is modelled as sequences of one-character strings, so that the     *)
(* string operations of the code (startswith, in, split) are computed as   *)
(* the code computes them.                                                 *)
(***************************************************************************)
EXTENDS Integers, Sequences, FiniteSets, TLC

VARIABLES
    \* ---- CivitAiAPI: cache, clock and the _get call in progress
    cache,        \* self._cache: cache key -> entry
    now,          \* time.time(), in seconds
    gpc,          \* position of the _get call: "idle", "request", "done"
    gurl,         \* its url argument
    guse,         \* its use_cache argument
    gattempt,     \* the loop variable `attempt`
    greq,         \* HTTP requests issued by this call
    gsleeps,      \* the delays this call slept, in order
    gret,         \* its return value
    gcaller,      \* "direct" or "extract": who receives the return value
    ncalls,       \* number of _get calls started so far
    transport,    \* what the transport answered to this call, in order
    lastFetch,    \* per url: the last successful use_cache fetch (body, time)
    ghit,         \* the fetch that this call had to be served from, if any
    evpc,         \* position of _extract_version_id: "idle", "fetch", "done"
    evin,         \* the input it was called with
    evres,        \* its result
    evfetches,    \* metadata fetches (_get calls) it made
    evmeta,       \* what its metadata fetch returned
    nticks,       \* times the clock advanced between calls
    nev,          \* _extract_version_id calls made so far
    \* ---- CivitAiAPI: downloads and the batch coordinator
    files,        \* the disk: destination path -> "absent", "old", "partial", "full"
    maxWorkers,   \* self.max_workers
    items,        \* the (descriptor, path) pairs: item -> [name, path]
    dst,          \* the descriptors: item -> [status, progress, file_size]
    wpc,          \* item -> position of its download call
    total,        \* item -> total_size of the call
    downloaded,   \* item -> downloaded_size of the call
    nchunks,      \* item -> chunks read by the call
    cbs,          \* item -> progress values passed to the callback by the call
    dreq,         \* item -> HTTP requests issued by the call
    res,          \* item -> outcome of the call: "none", "true", "false", "raise"
    fileBefore,   \* item -> what the destination held when the call started
    ndl,          \* direct download calls made so far
    bpc,          \* download_multiple_models: "idle", "running", "returned",
                  \* "raised"
    nbatch,       \* batches run so far
    results,      \* its results dict: name -> "absent", "true", "false"
    completedModels,  \* its completed_models counter
    overallCb,    \* the calls of its progress_callback, in order
    collected,    \* the futures as_completed has yielded
    active,       \* self.active_downloads: name -> "absent" or its status
    stats,        \* self.logger.download_stats
    cbRaises,     \* the progress_callback given to the running call raises
    statTmp,      \* worker -> the completed_files it read and has yet to store
    \* ---- Tunnel
    check_local_port, \* self.check_local_port
    portOpen,     \* whether the local port accepts connections
    tunnel_list,  \* self.tunnel_list
    tunnel_statuses,  \* self.tunnel_statuses: name -> TunnelStatus
    is_running,   \* self._is_running
    stop_event,   \* self.stop_event
    printed,      \* self.printed
    urls,         \* self.urls
    jobs,         \* self.jobs: the threads, 0 the printer, i the thread of tunnel i
    processes,    \* self.processes: the subprocess of tunnel i is i
    tpc,          \* thread -> position in _print or _run
    urlx,         \* thread -> url_extracted of monitor_process_output
    proc,         \* subprocess -> "none", "running", "exited"
    mpc,          \* the caller: "idle", or in stop: "terminate", "join"
    tidx,         \* terminate_processes: index of the next process
    jidx,         \* join_threads: index of the next thread
    stopped,      \* stop() has returned and start was not called since
    nadd,         \* add_tunnel calls made so far
    lastadd,      \* the arguments of the last add_tunnel call
    nstart,       \* successful starts so far
    supcb,        \* self.callback is set: the supervisor-level callback
    spc,          \* the caller of start(): "idle", "waiting", "returned"
    refused,      \* the last exception start(), __enter__ or stop() raised,
                  \* or "none"
    \* ---- the health monitor of the supervisor
    hpc,          \* the health-monitor threads, in order of creation, each
                  \* at "test", "check", "sleep" or "done"
    health_check_running,  \* self.health_check_running
    probed,       \* the tunnels the last perform_health_checks called urlopen for
    \* ---- functions applied to one input: add_tunnel's configuration,
    \* _process_url
    fpc,          \* "idle", "call", "done"
    fin,          \* the input
    fout          \* the value computed from it

apiVars == <<cache, now, gpc, gurl, guse, gattempt, greq, gsleeps, gret,
             gcaller, ncalls, transport, lastFetch, ghit,
             evpc, evin, evres, evfetches, evmeta, nticks, nev>>

dlVars == <<files, maxWorkers, items, dst, wpc, total, downloaded, nchunks, cbs,
            dreq, res, fileBefore, ndl, bpc, nbatch, results, completedModels,
            overallCb, collected, active, stats, cbRaises, statTmp>>

tunVars == <<check_local_port, portOpen, tunnel_list, tunnel_statuses,
             is_running, stop_event, printed, urls, jobs, processes, tpc, urlx,
             proc, mpc, tidx, jidx, stopped, nadd, lastadd, nstart,
             supcb, spc, refused>>
startVars == <<supcb, spc, refused>>
healthVars == <<hpc, health_check_running, probed>>
funVars == <<fpc, fin, fout>>

vars == <<apiVars, dlVars, tunVars, healthVars, funVars>>

(***************************************************************************)
(* Bounds of the model                                                     *)
(***************************************************************************)
MaxTime == 310      \* the clock stops advancing here
MaxTicks == 2       \* times the clock advances between calls
MaxCalls == 2       \* _get calls per behaviour
MaxExtracts == 1    \* _extract_version_id calls per behaviour
MaxItems == 2       \* (descriptor, path) pairs of a client
MaxChunks == 2      \* chunks a response body delivers
MaxDlCalls == 3     \* direct download calls per behaviour
MaxBatches == 2     \* download_multiple_models calls per behaviour
MaxWorkersArg == 4  \* largest max_workers constructor argument
MaxAdds == 2        \* add_tunnel calls per behaviour
MaxStarts == 1      \* starts of the supervisor per behaviour
MaxRestarts == 2    \* starts per behaviour when start() is the entry
MaxMonitors == 2    \* health-monitor threads created per behaviour
MaxParams == 3      \* query parameters of a downloadUrl
PoolItems == 4      \* items of the batches that fill the worker pool

(***************************************************************************)
(* Text                                                                    *)
(***************************************************************************)
S_http == <<"h","t","t","p",":","/","/">>
S_https == <<"h","t","t","p","s",":","/","/">>
S_host == <<"c","i","v","i","t","a","i",".","c","o","m">>
S_models == <<"/","m","o","d","e","l","s","/">>
S_civitaiModels == <<"c","i","v","i","t","a","i",".","c","o","m","/","m","o","d","e","l","s","/">>
S_download == <<"/","a","p","i","/","d","o","w","n","l","o","a","d","/","m","o","d","e","l","s","/">>
S_mvid == <<"m","o","d","e","l","V","e","r","s","i","o","n","I","d","=">>
S_modelsEndpoint == <<"m","o","d","e","l","s","/">>
S_slug == <<"/","s","o","m","e","-","n","a","m","e">>
S_user == <<"/","u","s","e","r","/","x">>
S_type == <<"t","y","p","e","=","M","o","d","e","l">>
S_abc == <<"a","b","c">>
S_456 == <<"4","5","6">>
S_7 == <<"7">>
S_123 == <<"1","2","3">>
Digits == {"0","1","2","3","4","5","6","7","8","9"}

\* str.startswith(p)
StartsWith(s, p) == Len(s) >= Len(p) /\ SubSeq(s, 1, Len(p)) = p

OccursAt(s, p, i) == i + Len(p) - 1 <= Len(s) /\ SubSeq(s, i, i + Len(p) - 1) = p

\* `p in s` for a non-empty p
Contains(s, p) == \E i \in 1..Len(s) : OccursAt(s, p, i)

\* index of the first occurrence of p in s, 0 when there is none
Find(s, p) ==
    IF Contains(s, p)
    THEN CHOOSE i \in 1..Len(s) :
             OccursAt(s, p, i) /\ \A j \in 1..(i - 1) : ~OccursAt(s, p, j)
    ELSE 0

\* s.split(sep)[0]
SplitHead(s, sep) == IF Find(s, sep) = 0 THEN s ELSE SubSeq(s, 1, Find(s, sep) - 1)

\* s.split(sep)[1], for an s that contains sep
SplitSecond(s, sep) ==
    SplitHead(SubSeq(s, Find(s, sep) + Len(sep), Len(s)), sep)

\* str.isdigit()
IsDigit(s) == Len(s) > 0 /\ \A i \in 1..Len(s) : s[i] \in Digits

(***************************************************************************)
(* JSON bodies.  tag and size decide Python truthiness; hasMV says whether *)
(* the object has a 'modelVersions' key, versions lists the 'id' of each   *)
(* listed version, NoId standing for a version object without an 'id'.     *)
(***************************************************************************)
NoId == 0
Json(tag, size, hasMV, versions) ==
    [tag |-> tag, size |-> size, hasMV |-> hasMV, versions |-> versions]
EmptyObj == Json("dict", 0, FALSE, << >>)
EmptyList == Json("list", 0, FALSE, << >>)
ModelA == Json("dict", 2, TRUE, <<789, 788>>)
ModelNoVersions == Json("dict", 2, TRUE, << >>)
ModelNoIdVersion == Json("dict", 2, TRUE, <<NoId>>)
Bodies == {EmptyObj, EmptyList, ModelA, ModelNoVersions, ModelNoIdVersion}

\* bool(x) of a decoded JSON body
Truthy(b) == b.size > 0

None == [kind |-> "None", body |-> EmptyObj]
Some(b) == [kind |-> "json", body |-> b]

(***************************************************************************)
(* CivitAiAPI constants and helpers                                        *)
(***************************************************************************)
RETRY_ATTEMPTS == 3
RETRY_DELAY == 2
CacheTimeout == 300
BASE_URL == <<"h","t","t","p","s",":","/","/","c","i","v","i","t","a","i",".","c","o","m","/","a","p","i","/","v","1">>

BuildUrl(endpoint) == BASE_URL \o <<"/">> \o endpoint

ModelIds == {S_456, S_7}
ApiUrls == {BuildUrl(S_modelsEndpoint \o id) : id \in ModelIds}

\* hashlib.md5(url).hexdigest(): the digest of a url is modelled by the
\* model id the url ends with, so that distinct urls have distinct keys
GetCacheKey(url) == SubSeq(url, Len(BuildUrl(S_modelsEndpoint)) + 1, Len(url))
CacheKeys == {GetCacheKey(u) : u \in ApiUrls}

NoEntry == [present |-> FALSE, data |-> EmptyObj, timestamp |-> 0]
Entry(d, t) == [present |-> TRUE, data |-> d, timestamp |-> t]

IsCacheValidInclusive(key) ==
    IF ~cache[key].present THEN FALSE
    ELSE now - cache[key].timestamp <= CacheTimeout
IsCacheValid(key) ==
    IF ~cache[key].present THEN FALSE
    ELSE now - cache[key].timestamp < CacheTimeout

GetFromCache(key) == IF IsCacheValid(key) THEN Some(cache[key].data) ELSE None

\* the test `if cached_data:` of _get
CacheHit(key) ==
    /\ GetFromCache(key).kind = "json"
    /\ Truthy(GetFromCache(key).body)

\* time.sleep(self.RETRY_DELAY * (attempt + 1))
SleepDelayFlat(attempt) == RETRY_DELAY
SleepDelay(attempt) == RETRY_DELAY * (attempt + 1)

\* `if attempt < self.RETRY_ATTEMPTS - 1`
MoreAttemptsEager(attempt) == attempt < RETRY_ATTEMPTS
MoreAttempts(attempt) == attempt < RETRY_ATTEMPTS - 1

NoFetch == [present |-> FALSE, data |-> EmptyObj, time |-> 0]
Fetched(d, t) == [present |-> TRUE, data |-> d, time |-> t]

EvIdleIn == [scheme |-> "https", shape |-> "other", id |-> S_7, mvid |-> FALSE,
             extra |-> "none"]
EvNone == [kind |-> "None", str |-> << >>, num |-> 0]
EvStr(s) == [kind |-> "str", str |-> s, num |-> 0]
EvNum(n) == [kind |-> "num", str |-> << >>, num |-> n]
EvRaise == [kind |-> "raise", str |-> << >>, num |-> 0]

ApiInit ==
    /\ cache = [k \in CacheKeys |-> NoEntry]
    /\ now = 0
    /\ gpc = "idle"
    /\ gurl = BuildUrl(S_modelsEndpoint \o S_7)
    /\ guse = FALSE
    /\ gattempt = 0
    /\ greq = 0
    /\ gsleeps = << >>
    /\ gret = None
    /\ gcaller = "direct"
    /\ ncalls = 0
    /\ transport = << >>
    /\ lastFetch = [u \in ApiUrls |-> NoFetch]
    /\ ghit = NoFetch
    /\ nticks = 0
    /\ nev = 0
    /\ evpc = "idle"
    /\ evin = EvIdleIn
    /\ evres = EvNone
    /\ evfetches = 0
    /\ evmeta = None

(***************************************************************************)
(* CivitAiAPI._get                                                         *)
(***************************************************************************)
ClockSteps == {1, CacheTimeout - 1}

\* Entry of _get: the cache check.  ghit records, from the history alone,
\* the fetch this call falls within the time-to-live of.
GetEnter(u, uc, caller) ==
    /\ ncalls < MaxCalls
    /\ ncalls' = ncalls + 1
    /\ gurl' = u
    /\ guse' = uc
    /\ gcaller' = caller
    /\ gattempt' = 0
    /\ greq' = 0
    /\ gsleeps' = << >>
    /\ transport' = << >>
    /\ ghit' = IF uc /\ lastFetch[u].present
                     /\ now < lastFetch[u].time + CacheTimeout
               THEN lastFetch[u] ELSE NoFetch
    /\ IF uc /\ CacheHit(GetCacheKey(u))
       THEN gret' = GetFromCache(GetCacheKey(u)) /\ gpc' = "done"
       ELSE gret' = None /\ gpc' = "request"
    /\ UNCHANGED <<cache, now, lastFetch>>

GetCall(u, uc) ==
    /\ gpc = "idle" /\ evpc = "idle"
    /\ GetEnter(u, uc, "direct")
    /\ UNCHANGED <<evpc, evin, evres, evfetches, evmeta, nticks, nev, dlVars, tunVars, healthVars, funVars>>

\* One attempt whose response is decoded to body d.
GetRequestOk(d) ==
    /\ gpc = "request"
    /\ greq' = greq + 1
    /\ transport' = Append(transport, [ok |-> TRUE, body |-> d])
    /\ cache' = IF guse THEN [cache EXCEPT ![GetCacheKey(gurl)] = Entry(d, now)]
                ELSE cache
    /\ lastFetch' = IF guse THEN [lastFetch EXCEPT ![gurl] = Fetched(d, now)]
                    ELSE lastFetch
    /\ gret' = Some(d)
    /\ gpc' = "done"
    /\ UNCHANGED <<now, gurl, guse, gattempt, gsleeps, gcaller, ncalls, ghit,
                   evpc, evin, evres, evfetches, evmeta, nticks, nev, dlVars, tunVars,
                   healthVars, funVars>>

\* One attempt that raises a RequestException, with the sleep that follows.
GetRequestFail ==
    /\ gpc = "request"
    /\ greq' = greq + 1
    /\ transport' = Append(transport, [ok |-> FALSE, body |-> EmptyObj])
    /\ IF MoreAttempts(gattempt)
       THEN /\ now + SleepDelay(gattempt) <= MaxTime
            /\ now' = now + SleepDelay(gattempt)
            /\ gsleeps' = Append(gsleeps, SleepDelay(gattempt))
       ELSE UNCHANGED <<now, gsleeps>>
    /\ gattempt' = gattempt + 1
    /\ IF gattempt + 1 < RETRY_ATTEMPTS
       THEN gpc' = "request" /\ gret' = gret
       ELSE gpc' = "done" /\ gret' = None
    /\ UNCHANGED <<cache, lastFetch, gurl, guse, gcaller, ncalls, ghit,
                   evpc, evin, evres, evfetches, evmeta, nticks, nev, dlVars, tunVars,
                   healthVars, funVars>>

\* The call is over: its frame is gone.
GetLeave ==
    /\ gpc' = "idle"
    /\ gurl' = BuildUrl(S_modelsEndpoint \o S_7)
    /\ guse' = FALSE
    /\ gattempt' = 0
    /\ greq' = 0
    /\ gsleeps' = << >>
    /\ gret' = None
    /\ gcaller' = "direct"
    /\ transport' = << >>
    /\ ghit' = NoFetch

\* A direct caller takes the return value.
GetReturn ==
    /\ gpc = "done" /\ gcaller = "direct"
    /\ GetLeave
    /\ UNCHANGED <<cache, now, ncalls, lastFetch,
                   evpc, evin, evres, evfetches, evmeta, nticks, nev, dlVars, tunVars,
                   healthVars, funVars>>

ClearCache ==
    /\ gpc = "idle" /\ evpc = "idle"
    /\ cache' = [k \in CacheKeys |-> NoEntry]
    /\ lastFetch' = [u \in ApiUrls |-> NoFetch]
    /\ UNCHANGED <<now, gpc, gurl, guse, gattempt, greq, gsleeps, gret,
                   gcaller, ncalls, transport, ghit,
                   evpc, evin, evres, evfetches, evmeta, nticks, nev, dlVars, tunVars,
                   healthVars, funVars>>

\* Time passes between calls.
Tick(d) ==
    /\ gpc = "idle" /\ evpc = "idle"
    /\ now + d <= MaxTime
    /\ nticks < MaxTicks
    /\ nticks' = nticks + 1
    /\ now' = now + d
    /\ UNCHANGED <<cache, gpc, gurl, guse, gattempt, greq, gsleeps, gret,
                   gcaller, ncalls, transport, lastFetch, ghit,
                   evpc, evin, evres, evfetches, evmeta, nev, dlVars, tunVars,
                   healthVars, funVars>>

(***************************************************************************)
(* CivitAiAPI._extract_version_id                                          *)
(***************************************************************************)
EvInputs ==
    {in \in [scheme : {"https", "http", "none"},
             shape : {"page", "pageslug", "download", "other", "nondigit"},
             id : ModelIds,
             mvid : BOOLEAN,
             extra : {"none", "before", "after"}] :
        /\ in.shape \in {"other", "nondigit"} => in.id = S_7
        /\ ~in.mvid => in.extra # "before"}

\* The url a caller writes for an input.
RenderQuery(in) ==
    LET mv == S_mvid \o S_123
        parts == IF in.mvid
                 THEN CASE in.extra = "none" -> mv
                        [] in.extra = "before" -> S_type \o <<"&">> \o mv
                        [] in.extra = "after" -> mv \o <<"&">> \o S_type
                 ELSE IF in.extra = "none" THEN << >> ELSE S_type
    IN IF parts = << >> THEN << >> ELSE <<"?">> \o parts

Render(in) ==
    (CASE in.scheme = "https" -> S_https
       [] in.scheme = "http" -> S_http
       [] in.scheme = "none" -> << >>)
    \o S_host
    \o (CASE in.shape = "page" -> S_models \o in.id
          [] in.shape = "pageslug" -> S_models \o in.id \o S_slug
          [] in.shape = "download" -> S_download \o in.id
          [] in.shape = "other" -> S_user
          [] in.shape = "nondigit" -> S_models \o S_abc)
    \o RenderQuery(in)

\* url.split('modelVersionId=')[1].split('&')[0]
VersionIdFromQueryNoAmp(url) == SplitSecond(url, S_mvid)
VersionIdFromQuery(url) == SplitHead(SplitSecond(url, S_mvid), <<"&">>)

\* url.split('/models/')[1].split('/')[0].split('?')[0]
ModelIdFromPage(url) ==
    SplitHead(SplitHead(SplitSecond(url, S_models), <<"/">>), <<"?">>)

\* url.split('/api/download/models/')[1].split('?')[0]
VersionIdFromDownload(url) == SplitHead(SplitSecond(url, S_download), <<"?">>)

\* The part of _extract_version_id before any fetch: a result to return, or
\* the model id whose metadata has to be fetched.
EvReturnNow(r) == [act |-> "return", res |-> r, id |-> << >>]
EvFetch(id) == [act |-> "fetch", res |-> EvNone, id |-> id]
ExtractStep(url) ==
    IF ~(StartsWith(url, S_http) \/ StartsWith(url, S_https))
    THEN EvReturnNow(EvNone)
    ELSE IF Contains(url, S_mvid)
    THEN EvReturnNow(EvStr(VersionIdFromQuery(url)))
    ELSE IF Contains(url, S_civitaiModels) /\ IsDigit(ModelIdFromPage(url))
    THEN EvFetch(ModelIdFromPage(url))
    ELSE IF Contains(url, S_download)
    THEN EvReturnNow(EvStr(VersionIdFromDownload(url)))
    ELSE EvReturnNow(EvNone)

\* model_data.get('modelVersions', [{}])[0].get('id') if model_data else None
FirstVersionId(r) ==
    IF r.kind = "None" \/ ~Truthy(r.body) THEN EvNone
    ELSE LET mv == IF r.body.hasMV THEN r.body.versions ELSE <<NoId>>
         IN IF Len(mv) = 0 THEN EvRaise
            ELSE IF mv[1] = NoId THEN EvNone ELSE EvNum(mv[1])

ExtractCall(in) ==
    /\ gpc = "idle" /\ evpc = "idle"
    /\ nev < MaxExtracts
    /\ nev' = nev + 1
    /\ evin' = in
    /\ LET step == ExtractStep(Render(in))
       IN IF step.act = "fetch"
          THEN /\ GetEnter(BuildUrl(S_modelsEndpoint \o step.id), TRUE, "extract")
               /\ evpc' = "fetch"
               /\ evfetches' = 1
               /\ evres' = EvNone
               /\ evmeta' = None
          ELSE /\ evpc' = "done"
               /\ evfetches' = 0
               /\ evres' = step.res
               /\ evmeta' = None
               /\ UNCHANGED <<cache, now, gpc, gurl, guse, gattempt, greq,
                              gsleeps, gret, gcaller, ncalls, transport,
                              lastFetch, ghit>>
    /\ UNCHANGED <<nticks, dlVars, tunVars, healthVars, funVars>>

\* _get returns into _extract_version_id.
ExtractResume ==
    /\ gpc = "done" /\ gcaller = "extract" /\ evpc = "fetch"
    /\ GetLeave
    /\ evpc' = "done"
    /\ evres' = FirstVersionId(gret)
    /\ evmeta' = gret
    /\ UNCHANGED <<cache, now, ncalls, lastFetch,
                   evin, evfetches, nticks, nev, dlVars, tunVars,
                   healthVars, funVars>>

ExtractReturn ==
    /\ evpc = "done"
    /\ evpc' = "idle"
    /\ evin' = EvIdleIn
    /\ evres' = EvNone
    /\ evfetches' = 0
    /\ evmeta' = None
    /\ UNCHANGED <<cache, now, gpc, gurl, guse, gattempt, greq, gsleeps, gret,
                   gcaller, ncalls, transport, lastFetch, ghit, nticks, nev,
                   dlVars, tunVars, healthVars, funVars>>

(***************************************************************************)
(* CivitAiAPI.download_model_with_progress                                 *)
(***************************************************************************)
MAX_CONCURRENT_DOWNLOADS == 3
CHUNK_SIZE == 8192
Names == {"a", "b"}
NoSize == -1     \* file_size is None
ContentLengths == {0, CHUNK_SIZE, 2 * CHUNK_SIZE}

Min(a, b) == IF a < b THEN a ELSE b
Max(a, b) == IF a > b THEN a ELSE b

\* self.max_workers = min(max_workers, self.MAX_CONCURRENT_DOWNLOADS)
MaxWorkersUncapped(max_workers) == max_workers
MaxWorkersOf(max_workers) == Min(max_workers, MAX_CONCURRENT_DOWNLOADS)
Items == DOMAIN items

\* save_path.exists()
PathExistsNever(path) == FALSE
PathExists(path) == files[path] # "absent"

\* ModelData.update_progress: the stored progress is clamped to 0..100
ClampProgress(progress) == Min(100, Max(0, progress))

\* (downloaded_size / total_size) * 100
Percent(done, size) == (done * 100) \div size

\* The tail of download_single, under download_lock.
Epilogue(a, name, success) ==
    IF a[name] = "absent" THEN a
    ELSE IF success THEN [a EXCEPT ![name] = "completed"]
    ELSE [a EXCEPT ![name] = "absent"]

InBatch == bpc = "running"

\* progress_callback(progress, message).  A direct caller's callback is
\* observed through the log of the values it was given; in a batch the
\* callback is model_progress_callback of download_single, which only
\* rewrites the entry of active_downloads.
Callback(log, progress) == IF InBatch THEN log ELSE Append(log, progress)

\* The progress_callback of a direct call raises when it is called; the
\* callback of a worker is model_progress_callback, which does not.
CbRaises == cbRaises /\ ~InBatch

\* Entry of the download: mkdir of the parent, then the exists test.  a1 is
\* active_downloads as the caller left it; mkfail says that mkdir raises,
\* which it cannot do when the destination exists.
DlEnter(i, mkfail, a1) ==
    LET path == items[i].path
        name == items[i].name
    IN
    /\ mkfail => ~PathExists(path)
    /\ fileBefore' = [fileBefore EXCEPT ![i] = files[path]]
    /\ total' = [total EXCEPT ![i] = 0]
    /\ downloaded' = [downloaded EXCEPT ![i] = 0]
    /\ nchunks' = [nchunks EXCEPT ![i] = 0]
    /\ dreq' = [dreq EXCEPT ![i] = 0]
    /\ IF mkfail
       THEN /\ res' = [res EXCEPT ![i] = "raise"]
            /\ wpc' = [wpc EXCEPT ![i] = "finished"]
            /\ cbs' = [cbs EXCEPT ![i] = << >>]
            /\ active' = a1
            /\ UNCHANGED dst
       ELSE IF PathExists(path)
       THEN /\ dst' = [dst EXCEPT ![i].status = "completed", ![i].progress = 100]
            /\ cbs' = [cbs EXCEPT ![i] = Callback(<< >>, 100)]
            /\ res' = [res EXCEPT ![i] = IF ~InBatch /\ cbRaises' THEN "raise"
                                            ELSE "true"]
            /\ wpc' = [wpc EXCEPT ![i] = "finished"]
            /\ active' = IF InBatch THEN Epilogue(a1, name, TRUE) ELSE a1
       ELSE /\ dst' = [dst EXCEPT ![i].status = "downloading"]
            /\ cbs' = [cbs EXCEPT ![i] = << >>]
            /\ res' = [res EXCEPT ![i] = "none"]
            /\ wpc' = [wpc EXCEPT ![i] = "request"]
            /\ active' = a1
    /\ UNCHANGED <<files, stats>>

\* The except branch: status, statistics, callback(0.0), unlink.  When the
\* callback raises, the exception leaves the function before the unlink.
DlFail(i) ==
    LET path == items[i].path
        name == items[i].name
    IN
    /\ dst' = [dst EXCEPT ![i].status = "failed"]
    /\ stats' = [stats EXCEPT !.failed_files = @ + 1]
    /\ cbs' = [cbs EXCEPT ![i] = Callback(@, 0)]
    /\ files' = IF PathExists(path) /\ ~CbRaises
                THEN [files EXCEPT ![path] = "absent"] ELSE files
    /\ res' = [res EXCEPT ![i] = IF CbRaises THEN "raise" ELSE "false"]
    /\ wpc' = [wpc EXCEPT ![i] = "finished"]
    /\ total' = [total EXCEPT ![i] = 0]
    /\ downloaded' = [downloaded EXCEPT ![i] = 0]
    /\ nchunks' = [nchunks EXCEPT ![i] = 0]
    /\ active' = IF InBatch THEN Epilogue(active, name, FALSE) ELSE active

\* A direct call of download_model_with_progress on descriptor i, with a
\* progress_callback that raises or one that does not.
DirectCallCb(i, mkfail, raises) ==
    /\ bpc = "idle"
    /\ \A j \in Items : wpc[j] = "idle"
    /\ ndl < MaxDlCalls
    /\ ndl' = ndl + 1
    /\ cbRaises' = raises
    /\ DlEnter(i, mkfail, active)
    /\ UNCHANGED <<maxWorkers, items, bpc, nbatch, results, completedModels,
                   overallCb, collected, statTmp, apiVars, tunVars,
                   healthVars, funVars>>

\* A direct call with a progress_callback that does not raise.
DirectCall(i, mkfail) == DirectCallCb(i, mkfail, FALSE)

\* session.get raises, or raise_for_status does.
DlRequestFail(i) ==
    /\ wpc[i] = "request"
    /\ dreq' = [dreq EXCEPT ![i] = @ + 1]
    /\ DlFail(i)
    /\ UNCHANGED <<maxWorkers, items, fileBefore,
                   ndl, bpc, nbatch, results, completedModels, overallCb,
                   collected, cbRaises, statTmp, apiVars, tunVars,
                   healthVars, funVars>>

\* The response arrives with content-length cl (0 when the header is absent)
\* and the destination is opened for writing.
DlResponse(i, cl) ==
    /\ wpc[i] = "request"
    /\ dreq' = [dreq EXCEPT ![i] = @ + 1]
    /\ total' = [total EXCEPT ![i] = cl]
    /\ dst' = [dst EXCEPT ![i].file_size = cl]
    /\ downloaded' = [downloaded EXCEPT ![i] = 0]
    /\ files' = [files EXCEPT ![items[i].path] = "partial"]
    /\ wpc' = [wpc EXCEPT ![i] = "stream"]
    /\ UNCHANGED <<maxWorkers, items, nchunks, cbs, res, fileBefore, ndl, bpc,
                   nbatch, results, completedModels, overallCb, collected,
                   active, stats, cbRaises, statTmp, apiVars, tunVars,
                   healthVars, funVars>>

\* One chunk of CHUNK_SIZE bytes is written and reported.  A callback that
\* raises takes the call through the except branch, where it raises again.
DlChunk(i) ==
    /\ wpc[i] = "stream"
    /\ nchunks[i] < MaxChunks
    /\ IF total[i] > 0 /\ CbRaises
       THEN LET progress == Percent(downloaded[i] + CHUNK_SIZE, total[i])
            IN /\ dst' = [dst EXCEPT ![i].progress = ClampProgress(progress),
                                     ![i].status = "failed"]
               /\ cbs' = [cbs EXCEPT ![i] = Callback(Callback(@, progress), 0)]
               /\ stats' = [stats EXCEPT !.failed_files = @ + 1]
               /\ res' = [res EXCEPT ![i] = "raise"]
               /\ wpc' = [wpc EXCEPT ![i] = "finished"]
               /\ total' = [total EXCEPT ![i] = 0]
               /\ downloaded' = [downloaded EXCEPT ![i] = 0]
               /\ nchunks' = [nchunks EXCEPT ![i] = 0]
       ELSE /\ nchunks' = [nchunks EXCEPT ![i] = @ + 1]
            /\ downloaded' = [downloaded EXCEPT ![i] = @ + CHUNK_SIZE]
            /\ IF total[i] > 0
               THEN LET progress == Percent(downloaded[i] + CHUNK_SIZE, total[i])
                    IN /\ dst' = [dst EXCEPT ![i].progress = ClampProgress(progress)]
                       /\ cbs' = [cbs EXCEPT ![i] = Callback(@, progress)]
               ELSE UNCHANGED <<dst, cbs>>
            /\ UNCHANGED <<wpc, total, res, stats>>
    /\ UNCHANGED <<files, maxWorkers, items, dreq, fileBefore,
                   ndl, bpc, nbatch, results, completedModels, overallCb,
                   collected, active, cbRaises, statTmp, apiVars, tunVars,
                   healthVars, funVars>>

\* Reading the body or writing the file raises.
DlStreamError(i) ==
    /\ wpc[i] = "stream"
    /\ DlFail(i)
    /\ UNCHANGED <<maxWorkers, items, dreq,
                   fileBefore, ndl, bpc, nbatch, results, completedModels,
                   overallCb, collected, cbRaises, statTmp, apiVars, tunVars,
                   healthVars, funVars>>

\* The body ends: the file is closed and the download is complete.  A
\* callback that raises on the final report takes the call through the
\* except branch, where it raises again before the unlink.
DlCompleteAt(i, pos, completed) ==
    /\ wpc[i] = pos
    /\ IF CbRaises
       THEN /\ dst' = [dst EXCEPT ![i].status = "failed", ![i].progress = 100]
            /\ stats' = [stats EXCEPT !.completed_files = completed + 1,
                                      !.failed_files = @ + 1]
            /\ cbs' = [cbs EXCEPT ![i] = Callback(Callback(@, 100), 0)]
            /\ res' = [res EXCEPT ![i] = "raise"]
       ELSE /\ dst' = [dst EXCEPT ![i].status = "completed", ![i].progress = 100]
            /\ stats' = [stats EXCEPT !.completed_files = completed + 1]
            /\ cbs' = [cbs EXCEPT ![i] = Callback(@, 100)]
            /\ res' = [res EXCEPT ![i] = "true"]
    /\ files' = [files EXCEPT ![items[i].path] = "full"]
    /\ wpc' = [wpc EXCEPT ![i] = "finished"]
    /\ total' = [total EXCEPT ![i] = 0]
    /\ downloaded' = [downloaded EXCEPT ![i] = 0]
    /\ nchunks' = [nchunks EXCEPT ![i] = 0]
    /\ active' = IF InBatch THEN Epilogue(active, items[i].name, TRUE) ELSE active
    /\ UNCHANGED <<maxWorkers, items, dreq,
                   fileBefore, ndl, bpc, nbatch, results, completedModels,
                   overallCb, collected, cbRaises, apiVars, tunVars,
                   healthVars, funVars>>

\* log_download_complete adds one to completed_files.
DlComplete(i) ==
    /\ DlCompleteAt(i, "stream", stats.completed_files)
    /\ UNCHANGED statTmp

\* `self.download_stats['completed_files'] += 1` as the interpreter runs it
\* in a worker thread, no lock held: the value is read ...
LogCompleteRead(i) ==
    /\ wpc[i] = "stream"
    /\ ~CbRaises
    /\ statTmp' = [j \in DOMAIN statTmp \cup {i} |->
                     IF j = i THEN stats.completed_files ELSE statTmp[j]]
    /\ wpc' = [wpc EXCEPT ![i] = "logging"]
    /\ UNCHANGED <<files, maxWorkers, items, dst, total, downloaded, nchunks,
                   cbs, dreq, res, fileBefore, ndl, bpc, nbatch, results,
                   completedModels, overallCb, collected, active, stats,
                   cbRaises, apiVars, tunVars, healthVars, funVars>>

\* ... and one more than the value read is stored.
LogCompleteWrite(i) ==
    /\ i \in DOMAIN statTmp
    /\ DlCompleteAt(i, "logging", statTmp[i])
    /\ statTmp' = [j \in DOMAIN statTmp \ {i} |-> statTmp[j]]

\* The calls of the items in S are over: their frames are gone.
DlLeave(S) ==
    /\ wpc' = [j \in Items |-> IF j \in S THEN "idle" ELSE wpc[j]]
    /\ total' = [j \in Items |-> IF j \in S THEN 0 ELSE total[j]]
    /\ downloaded' = [j \in Items |-> IF j \in S THEN 0 ELSE downloaded[j]]
    /\ nchunks' = [j \in Items |-> IF j \in S THEN 0 ELSE nchunks[j]]
    /\ cbs' = [j \in Items |-> IF j \in S THEN << >> ELSE cbs[j]]
    /\ dreq' = [j \in Items |-> IF j \in S THEN 0 ELSE dreq[j]]
    /\ res' = [j \in Items |-> IF j \in S THEN "none" ELSE res[j]]
    /\ fileBefore' = [j \in Items |-> IF j \in S THEN "absent" ELSE fileBefore[j]]

\* The direct caller takes the return value.
DirectReturn(i) ==
    /\ bpc = "idle"
    /\ wpc[i] = "finished"
    /\ DlLeave({i})
    /\ cbRaises' = FALSE
    /\ UNCHANGED <<files, maxWorkers, items, dst, ndl, bpc, nbatch, results,
                   completedModels, overallCb, collected, active, stats,
                   statTmp, apiVars, tunVars, healthVars, funVars>>

(***************************************************************************)
(* CivitAiAPI.download_multiple_models                                     *)
(***************************************************************************)
Running == {j \in Items : wpc[j] \in {"request", "stream", "logging"}}
Queued == {j \in Items : wpc[j] = "queued"}

\* Submission of every item to the pool, by a caller whose overall
\* progress_callback raises or one whose callback does not.
\* ThreadPoolExecutor raises ValueError when max_workers is not positive.
BatchCallCb(raises) ==
    /\ bpc = "idle"
    /\ cbRaises' = raises
    /\ \A j \in Items : wpc[j] = "idle"
    /\ nbatch < MaxBatches
    /\ nbatch' = nbatch + 1
    /\ results' = [n \in Names |-> "absent"]
    /\ completedModels' = 0
    /\ overallCb' = << >>
    /\ collected' = {}
    /\ stats' = [stats EXCEPT !.total_files = Len(items)]
    /\ IF maxWorkers <= 0
       THEN bpc' = "raised" /\ UNCHANGED wpc
       ELSE bpc' = "running" /\ wpc' = [j \in Items |-> "queued"]
    /\ UNCHANGED <<files, maxWorkers, items, dst, total, downloaded, nchunks,
                   cbs, dreq, res, fileBefore, ndl, active, statTmp, apiVars, tunVars,
                   healthVars, funVars>>

\* A batch with an overall progress_callback that does not raise.
BatchCall == BatchCallCb(FALSE)

\* A free worker takes the oldest queued item and enters download_single.
WorkerStart(i, mkfail) ==
    /\ bpc = "running"
    /\ i \in Queued
    /\ \A j \in Queued : i <= j
    /\ Cardinality(Running) < maxWorkers
    /\ DlEnter(i, mkfail, [active EXCEPT ![items[i].name] = "downloading"])
    /\ UNCHANGED <<maxWorkers, items, ndl, bpc, nbatch, results, completedModels,
                   overallCb, collected, cbRaises, statTmp, apiVars, tunVars,
                   healthVars, funVars>>

\* as_completed yields the finished future of item i.
BatchCollect(i) ==
    /\ bpc = "running"
    /\ wpc[i] = "finished"
    /\ i \notin collected
    /\ collected' = collected \cup {i}
    /\ IF res[i] = "raise"
       THEN /\ results' = [results EXCEPT ![items[i].name] = "false"]
            /\ UNCHANGED <<completedModels, overallCb>>
       ELSE /\ results' = [results EXCEPT ![items[i].name] =
                               IF cbRaises THEN "false" ELSE res[i]]
            /\ completedModels' = completedModels + 1
            /\ overallCb' = Append(overallCb,
                   [completed |-> completedModels + 1, total |-> Len(items),
                    name |-> items[i].name])
    /\ UNCHANGED <<files, maxWorkers, items, dst, wpc, total, downloaded,
                   nchunks, cbs, dreq, res, fileBefore, ndl, bpc, nbatch,
                   active, stats, cbRaises, statTmp, apiVars, tunVars,
                   healthVars, funVars>>

\* Every future was yielded: the pool shuts down and results is returned.
BatchReturn ==
    /\ bpc = "running"
    /\ collected = Items
    /\ bpc' = "returned"
    /\ UNCHANGED <<files, maxWorkers, items, dst, wpc, total, downloaded,
                   nchunks, cbs, dreq, res, fileBefore, ndl, nbatch, results,
                   completedModels, overallCb, collected, active, stats,
                   cbRaises, statTmp, apiVars, tunVars, healthVars, funVars>>

\* The caller takes the results, or the exception.
BatchDone ==
    /\ bpc \in {"returned", "raised"}
    /\ bpc' = "idle"
    /\ DlLeave(Items)
    /\ results' = [n \in Names |-> "absent"]
    /\ completedModels' = 0
    /\ overallCb' = << >>
    /\ collected' = {}
    /\ cbRaises' = FALSE
    /\ UNCHANGED <<files, maxWorkers, items, dst, ndl, nbatch, active, stats,
                   statTmp, apiVars, tunVars, healthVars, funVars>>

\* What a new client holds besides its descriptors and its pool size.
DlRest ==
    /\ ndl = 0
    /\ bpc = "idle"
    /\ nbatch = 0
    /\ results = [n \in Names |-> "absent"]
    /\ completedModels = 0
    /\ overallCb = << >>
    /\ collected = {}
    /\ active = [n \in Names |-> "absent"]
    /\ stats = [total_files |-> 0, completed_files |-> 0, failed_files |-> 0]
    /\ cbRaises = FALSE
    /\ statTmp = << >>

DlInit ==
    /\ \E n \in 1..MaxItems :
         /\ \E nm \in [1..n -> Names] :
                items = [j \in 1..n |-> [name |-> nm[j], path |-> j]]
         /\ files \in [1..n -> {"absent", "old"}]
         /\ dst = [j \in 1..n |->
                      [status |-> "pending", progress |-> 0, file_size |-> NoSize]]
         /\ wpc = [j \in 1..n |-> "idle"]
         /\ total = [j \in 1..n |-> 0]
         /\ downloaded = [j \in 1..n |-> 0]
         /\ nchunks = [j \in 1..n |-> 0]
         /\ cbs = [j \in 1..n |-> << >>]
         /\ dreq = [j \in 1..n |-> 0]
         /\ res = [j \in 1..n |-> "none"]
         /\ fileBefore = [j \in 1..n |-> "absent"]
    /\ \E arg \in 0..MaxWorkersArg : maxWorkers = MaxWorkersOf(arg)
    /\ DlRest

\* A client with PoolItems descriptors, none of them downloaded yet.
PoolInit ==
    /\ items = [j \in 1..PoolItems |->
                   [name |-> IF j % 2 = 1 THEN "a" ELSE "b", path |-> j]]
    /\ files = [j \in 1..PoolItems |-> "absent"]
    /\ dst = [j \in 1..PoolItems |->
                 [status |-> "pending", progress |-> 0, file_size |-> NoSize]]
    /\ wpc = [j \in 1..PoolItems |-> "idle"]
    /\ total = [j \in 1..PoolItems |-> 0]
    /\ downloaded = [j \in 1..PoolItems |-> 0]
    /\ nchunks = [j \in 1..PoolItems |-> 0]
    /\ cbs = [j \in 1..PoolItems |-> << >>]
    /\ dreq = [j \in 1..PoolItems |-> 0]
    /\ res = [j \in 1..PoolItems |-> "none"]
    /\ fileBefore = [j \in 1..PoolItems |-> "absent"]
    /\ \E arg \in 0..MaxWorkersArg : maxWorkers = MaxWorkersOf(arg)
    /\ DlRest

\* The download side of a client that downloads nothing.
DlIdle ==
    /\ items = << >>
    /\ files = << >>
    /\ dst = << >>
    /\ wpc = << >>
    /\ total = << >>
    /\ downloaded = << >>
    /\ nchunks = << >>
    /\ cbs = << >>
    /\ dreq = << >>
    /\ res = << >>
    /\ fileBefore = << >>
    /\ maxWorkers = MAX_CONCURRENT_DOWNLOADS
    /\ ndl = 0
    /\ bpc = "idle"
    /\ nbatch = 0
    /\ results = [n \in Names |-> "absent"]
    /\ completedModels = 0
    /\ overallCb = << >>
    /\ collected = {}
    /\ active = [n \in Names |-> "absent"]
    /\ stats = [total_files |-> 0, completed_files |-> 0, failed_files |-> 0]
    /\ cbRaises = FALSE
    /\ statTmp = << >>

\* The api side of a client that makes no metadata call.
ApiIdle == ApiInit

\* No health monitor was started; no function is being applied.
HealthIdle == hpc = << >> /\ health_check_running = FALSE /\ probed = {}
FunIdle == fpc = "idle" /\ fin = << >> /\ fout = << >>


(***************************************************************************)
(* TunnelHub: text, patterns and lines of output                           *)
(***************************************************************************)
S_httpWord == <<"h","t","t","p">>
S_ngrokSuffix == <<".","n","g","r","o","k",".","i","o">>
S_ltSuffix == <<".","l","o","c","a",".","l","t">>
Letters == {"a","b","c","d","e","f","g","h","i","j","k","l","m","n","o","p","q","r","s","t","u","v","w","x","y","z","A","B","C","D","E","F","G","H","I","J","K","L","M","N","O","P","Q","R","S","T","U","V","W","X","Y","Z"}
HostChars == Letters \cup Digits \cup {"-"}

LineNgrok == <<"y","o","u","r"," ","u","r","l"," ","i","s",":"," ","h","t","t","p","s",":","/","/","a","b","c","1","2","3",".","n","g","r","o","k",".","i","o">>
UrlNgrok == <<"h","t","t","p","s",":","/","/","a","b","c","1","2","3",".","n","g","r","o","k",".","i","o">>
LineBare == <<"a","b","c",".","l","o","c","a",".","l","t"," ","r","e","a","d","y">>
LineHttpHost == <<"u","r","l",":"," ","h","t","t","p","d","-","1",".","l","o","c","a",".","l","t">>
LineNoise == <<"s","t","a","r","t","i","n","g"," ","t","u","n","n","e","l">>
Lines == {LineNgrok, LineBare, LineHttpHost, LineNoise}

\* A compiled pattern: (https?://)?[a-zA-Z0-9-]+<suffix>, the scheme part
\* present when scheme is TRUE.  PatNgrok is the ngrok pattern of
\* add_recommended_tunnels; PatHost is a pattern a caller gives that names
\* the host only.
PatNgrok == [scheme |-> TRUE, suffix |-> S_ngrokSuffix]
PatHost == [scheme |-> FALSE, suffix |-> S_ltSuffix]

\* length of the text https?:// at position i of line, 0 when it is not there
SchemeAt(line, i) ==
    IF OccursAt(line, S_https, i) THEN Len(S_https)
    ELSE IF OccursAt(line, S_http, i) THEN Len(S_http)
    ELSE 0

\* length of the longest run of host characters of line from position b
HostRun(line, b) ==
    CHOOSE n \in 0..Len(line) :
        /\ \A k \in 0..(n - 1) : b + k <= Len(line) /\ line[b + k] \in HostChars
        /\ ~(b + n <= Len(line) /\ line[b + n] \in HostChars)

\* the last position of the match of pat that starts at position i, 0 when
\* no match starts there
MatchEnd(pat, line, i) ==
    LET sl == IF pat.scheme THEN SchemeAt(line, i) ELSE 0
        b == i + sl
        run == HostRun(line, b)
    IN IF pat.scheme /\ sl = 0 THEN 0
       ELSE IF run = 0 THEN 0
       ELSE IF OccursAt(line, pat.suffix, b + run)
       THEN b + run + Len(pat.suffix) - 1
       ELSE 0

\* regex.search(line): the leftmost match, << >> when there is none
RegexSearch(pat, line) ==
    IF \E i \in 1..Len(line) : MatchEnd(pat, line, i) # 0
    THEN LET i == CHOOSE i \in 1..Len(line) :
                      /\ MatchEnd(pat, line, i) # 0
                      /\ \A j \in 1..(i - 1) : MatchEnd(pat, line, j) = 0
         IN SubSeq(line, i, MatchEnd(pat, line, i))
    ELSE << >>

\* str.strip(), for blanks
Strip(t) ==
    IF \A k \in 1..Len(t) : t[k] = " " THEN << >>
    ELSE LET a == CHOOSE a \in 1..Len(t) :
                      t[a] # " " /\ \A k \in 1..(a - 1) : t[k] = " "
             b == CHOOSE b \in 1..Len(t) :
                      t[b] # " " /\ \A k \in (b + 1)..Len(t) : t[k] = " "
         IN SubSeq(t, a, b)

\* link if link.startswith('http') else 'http://' + link
NormalizeLink(link) ==
    IF StartsWith(link, S_httpWord) THEN link ELSE S_http \o link

\* extract_url: the entry appended to urls for a line, << >> when the
\* pattern of the tunnel does not match
LineMatches ==
    [p \in {PatNgrok, PatHost} |-> [l \in Lines |-> RegexSearch(p, l)]]
ExtractUrl(tunnel, line) ==
    LET m == LineMatches[tunnel.pattern][line]
    IN IF m = << >> THEN << >>
       ELSE <<[link |-> NormalizeLink(Strip(m)), note |-> tunnel.note,
               name |-> tunnel.name]>>

\* _process_line: the tunnels are tried in the order of tunnel_list and the
\* first whose pattern matches takes the line
RECURSIVE ProcessLineFrom(_, _)
ProcessLineFrom(k, line) ==
    IF k > Len(tunnel_list) THEN << >>
    ELSE IF ExtractUrl(tunnel_list[k], line) # << >>
    THEN ExtractUrl(tunnel_list[k], line)
    ELSE ProcessLineFrom(k + 1, line)

ProcessLine(line) == ProcessLineFrom(1, line)

(***************************************************************************)
(* EnhancedTunnel.add_tunnel                                               *)
(***************************************************************************)
TNames == {"ngrok", "lt", "zrok"}
InstalledCommands == {"ngrok", "lt"}

\* The argument lists of add_tunnel that callers use; callback is what the
\* per-tunnel URL callback does when called: "none" is no callback.
TunnelInputs ==
    {[command |-> <<"ngrok", "http", "{port}", "--log=stdout">>,
      pattern |-> PatNgrok, name |-> "ngrok", note |-> "Secure tunnel with HTTPS",
      callback |-> "raises"],
     [command |-> <<"lt", "--port", "{port}">>,
      pattern |-> PatHost, name |-> "lt", note |-> "Host only",
      callback |-> "returns"],
     [command |-> <<"zrok", "share", "public", "{port}">>,
      pattern |-> PatHost, name |-> "zrok", note |-> "", callback |-> "none"],
     [command |-> <<"zrok", "share", "public", "{port}">>,
      pattern |-> PatNgrok, name |-> "ngrok", note |-> "", callback |-> "none"]}

\* is_command_available
IsCommandAvailableAlways(cmd_name) == TRUE
IsCommandAvailable(cmd_name) == cmd_name \in InstalledCommands

\* A TunnelStatus; url and error_message are None (<< >>) by default.
NoStatus == [present |-> FALSE, status |-> "", url |-> << >>,
             error_message |-> << >>, retry_count |-> 0]
TunnelStatus(status, error) ==
    [present |-> TRUE, status |-> status, url |-> << >>,
     error_message |-> error, retry_count |-> 0]
\* f"Command '{cmd_name}' not available"
NotAvailable(cmd_name) == <<"Command '", cmd_name, "' not available">>
NoAdd == [command |-> << >>, name |-> ""]

TunInit ==
    /\ check_local_port \in BOOLEAN
    /\ portOpen = FALSE
    /\ tunnel_list = << >>
    /\ tunnel_statuses = [n \in TNames |-> NoStatus]
    /\ is_running = FALSE
    /\ stop_event = FALSE
    /\ printed = FALSE
    /\ urls = << >>
    /\ jobs = << >>
    /\ processes = << >>
    /\ tpc = << >>
    /\ urlx = << >>
    /\ proc = << >>
    /\ mpc = "idle"
    /\ tidx = 0
    /\ jidx = 0
    /\ stopped = FALSE
    /\ nadd = 0
    /\ lastadd = NoAdd
    /\ nstart = 0
    /\ supcb = FALSE
    /\ spc = "idle"
    /\ refused = "none"

\* A supervisor nobody uses.
TunIdle == TunInit /\ check_local_port = TRUE

AddTunnel(t) ==
    /\ mpc = "idle"
    /\ nadd < MaxAdds
    /\ nadd' = nadd + 1
    /\ lastadd' = [command |-> t.command, name |-> t.name]
    /\ LET cmd_name == Head(t.command)
       IN IF ~IsCommandAvailable(cmd_name)
          THEN /\ tunnel_statuses' = [tunnel_statuses EXCEPT ![t.name] =
                     TunnelStatus("failed", NotAvailable(cmd_name))]
               /\ UNCHANGED tunnel_list
          ELSE /\ tunnel_statuses' = [tunnel_statuses EXCEPT ![t.name] =
                     TunnelStatus("initializing", << >>)]
               /\ tunnel_list' = Append(tunnel_list, t)
    /\ UNCHANGED <<check_local_port, portOpen, is_running, stop_event, printed,
                   urls, jobs, processes, tpc, urlx, proc, mpc, tidx,
                   jidx, stopped, nstart, apiVars, dlVars, startVars,
                   healthVars, funVars>>

\* The max_retries a supervisor is constructed with by default.
max_retries == 3

\* perform_health_checks, one pass of the health monitor: only a tunnel
\* whose status is 'connected' and that has a url is probed; failing is the
\* set of names whose probe raises.
HealthChecked(st, fails) ==
    IF st.present /\ st.status = "connected" /\ st.url # << >>
    THEN IF fails
         THEN [st EXCEPT !.error_message = <<"Health check failed">>,
                         !.retry_count = st.retry_count + 1,
                         !.status = IF st.retry_count + 1 > max_retries
                                    THEN "failed" ELSE st.status]
         ELSE [st EXCEPT !.error_message = << >>]
    ELSE st
\* The tunnels one pass calls urllib.request.urlopen for.
Probed ==
    {n \in TNames : /\ tunnel_statuses[n].present
                    /\ tunnel_statuses[n].status = "connected"
                    /\ tunnel_statuses[n].url # << >>}
HealthPass(failing) ==
    /\ tunnel_statuses' =
          [n \in TNames |-> HealthChecked(tunnel_statuses[n], n \in failing)]
    /\ probed' = Probed
\* perform_health_checks called by the owner of the supervisor.
PerformHealthChecks(failing) ==
    /\ HealthPass(failing)
    /\ UNCHANGED <<check_local_port, portOpen, tunnel_list, is_running,
                   stop_event, printed, urls, jobs, processes, tpc, urlx, proc,
                   mpc, tidx, jidx, stopped, nadd, lastadd, nstart, apiVars,
                   dlVars, startVars, hpc, health_check_running, funVars>>

\* The health-monitor threads created so far, hpc[k] the position of the
\* k-th; self.health_monitor_thread is the last one.
Monitors == DOMAIN hpc
MonitorAlive == hpc # << >> /\ hpc[Len(hpc)] # "done"

\* start_health_monitoring: returns at once while the thread is alive,
\* else sets health_check_running and starts a new thread.
StartHealthMonitoring ==
    /\ Len(hpc) < MaxMonitors
    /\ ~MonitorAlive
    /\ health_check_running' = TRUE
    /\ hpc' = Append(hpc, "test")
    /\ UNCHANGED <<tunVars, probed, apiVars, dlVars, funVars>>

\* _health_monitor_loop: the test of the while loop.
HealthTest(k) ==
    /\ k \in Monitors /\ hpc[k] = "test"
    /\ hpc' = [hpc EXCEPT ![k] = IF health_check_running /\ ~stop_event
                                 THEN "check" ELSE "done"]
    /\ UNCHANGED <<tunVars, health_check_running, probed, apiVars, dlVars,
                   funVars>>

\* _health_monitor_loop: one pass of perform_health_checks; whether it
\* returns or raises, a sleep follows.
HealthCheck(k, failing) ==
    /\ k \in Monitors /\ hpc[k] = "check"
    /\ HealthPass(failing)
    /\ hpc' = [hpc EXCEPT ![k] = "sleep"]
    /\ UNCHANGED <<check_local_port, portOpen, tunnel_list, is_running,
                   stop_event, printed, urls, jobs, processes, tpc, urlx, proc,
                   mpc, tidx, jidx, stopped, nadd, lastadd, nstart, apiVars,
                   dlVars, startVars, health_check_running, funVars>>

\* _health_monitor_loop: time.sleep is over.
HealthWake(k) ==
    /\ k \in Monitors /\ hpc[k] = "sleep"
    /\ hpc' = [hpc EXCEPT ![k] = "test"]
    /\ UNCHANGED <<tunVars, health_check_running, probed, apiVars, dlVars,
                   funVars>>

(***************************************************************************)
(* Tunnel.__enter__, the threads, Tunnel.stop                              *)
(***************************************************************************)
Threads == DOMAIN tpc
TunnelThreads == Threads \ {0}

\* __enter__ past its two tests: the printer thread and one thread per
\* queued tunnel are started, then _is_running is set.
EnterThreads ==
    /\ nstart' = nstart + 1
    /\ jobs' = jobs \o <<0>> \o [k \in 1..Len(tunnel_list) |-> k]
    /\ tpc' = [k \in 0..Len(tunnel_list) |-> "start"]
    /\ urlx' = [k \in 0..Len(tunnel_list) |-> FALSE]
    /\ proc' = [k \in 1..Len(tunnel_list) |-> "none"]
    /\ is_running' = TRUE
    /\ stopped' = FALSE
    /\ UNCHANGED <<check_local_port, portOpen, tunnel_list, tunnel_statuses,
                   stop_event, printed, urls, processes, mpc, tidx, jidx, nadd,
                   lastadd, supcb, apiVars, dlVars, healthVars, funVars>>

\* __enter__ of a supervisor that is not running and has a tunnel queued.
Enter ==
    /\ mpc = "idle"
    /\ ~is_running
    /\ tunnel_list # << >>
    /\ nstart < MaxStarts
    /\ EnterThreads
    /\ UNCHANGED <<spc, refused>>

\* start() or __enter__ raises err before anything is started.
Refuse(err) ==
    /\ refused' = err
    /\ UNCHANGED <<check_local_port, portOpen, tunnel_list, tunnel_statuses,
                   is_running, stop_event, printed, urls, jobs, processes, tpc,
                   urlx, proc, mpc, tidx, jidx, stopped, nadd, lastadd, nstart,
                   supcb, spc, apiVars, dlVars, healthVars, funVars>>

\* The test of start() and the two tests of __enter__.
StartErrorWhenEmptyOnly ==
    IF tunnel_list = << >> THEN "ValueError" ELSE "none"
StartError ==
    IF is_running THEN "RuntimeError"
    ELSE IF tunnel_list = << >> THEN "ValueError"
    ELSE "none"

\* start(): refused, or __enter__ and then the wait for the printed event.
StartCall ==
    /\ spc # "waiting"
    /\ IF StartError # "none"
       THEN Refuse(StartError)
       ELSE /\ nstart < MaxRestarts
            /\ EnterThreads
            /\ spc' = "waiting"
            /\ refused' = "none"

\* start(): the loop `while not self.printed.is_set()` sees the event set.
StartReturn ==
    /\ spc = "waiting"
    /\ printed
    /\ spc' = "returned"
    /\ UNCHANGED <<check_local_port, portOpen, tunnel_list, tunnel_statuses,
                   is_running, stop_event, printed, urls, jobs, processes, tpc,
                   urlx, proc, mpc, tidx, jidx, stopped, nadd, lastadd, nstart,
                   supcb, refused, apiVars, dlVars, healthVars, funVars>>

\* `with tunnel:` in the thread that also calls stop(): refused or entered.
EnterCall ==
    /\ mpc = "idle"
    /\ IF StartError # "none"
       THEN Refuse(StartError)
       ELSE /\ nstart < MaxRestarts
            /\ EnterThreads
            /\ refused' = "none"
            /\ UNCHANGED spc

\* The server behind the local port comes up.
PortOpens ==
    /\ check_local_port /\ ~portOpen
    /\ portOpen' = TRUE
    /\ UNCHANGED <<check_local_port, tunnel_list, tunnel_statuses, is_running,
                   stop_event, printed, urls, jobs, processes, tpc, urlx, proc,
                   mpc, tidx, jidx, stopped, nadd, lastadd, nstart,
                   apiVars, dlVars, startVars, healthVars, funVars>>

\* wait_for_port_if_needed returns: the port is in use, or the stop flag is set.
PortWaitOver == ~check_local_port \/ portOpen \/ stop_event

\* _run: the wait for the port is over.
RunPortReady(i) ==
    /\ i \in TunnelThreads /\ tpc[i] = "start"
    /\ PortWaitOver
    /\ tpc' = [tpc EXCEPT ![i] = "spawn"]
    /\ UNCHANGED <<check_local_port, portOpen, tunnel_list, tunnel_statuses,
                   is_running, stop_event, printed, urls, jobs, processes, urlx,
                   proc, mpc, tidx, jidx, stopped, nadd, lastadd,
                   nstart, apiVars, dlVars, startVars, healthVars, funVars>>

\* _run: subprocess.Popen succeeds and the handle is appended to processes.
RunSpawn(i) ==
    /\ i \in TunnelThreads /\ tpc[i] = "spawn"
    /\ proc' = [proc EXCEPT ![i] = "running"]
    /\ processes' = Append(processes, i)
    /\ tpc' = [tpc EXCEPT ![i] = "loop"]
    /\ UNCHANGED <<check_local_port, portOpen, tunnel_list, tunnel_statuses,
                   is_running, stop_event, printed, urls, jobs, urlx, mpc, tidx,
                   jidx, stopped, nadd, lastadd, nstart, apiVars, dlVars, startVars,
                   healthVars, funVars>>

\* _run: subprocess.Popen raises; the error is logged and the thread ends.
RunSpawnFails(i) ==
    /\ i \in TunnelThreads /\ tpc[i] = "spawn"
    /\ tpc' = [tpc EXCEPT ![i] = "done"]
    /\ UNCHANGED <<check_local_port, portOpen, tunnel_list, tunnel_statuses,
                   is_running, stop_event, printed, urls, jobs, processes, urlx,
                   proc, mpc, tidx, jidx, stopped, nadd, lastadd,
                   nstart, apiVars, dlVars, startVars, healthVars, funVars>>

\* monitor_process_output: the loop test.
MonitorTest(i) ==
    /\ i \in TunnelThreads /\ tpc[i] = "loop"
    /\ tpc' = [tpc EXCEPT ![i] =
                 IF ~stop_event /\ proc[i] = "running" THEN "read" ELSE "done"]
    /\ UNCHANGED <<check_local_port, portOpen, tunnel_list, tunnel_statuses,
                   is_running, stop_event, printed, urls, jobs, processes, urlx,
                   proc, mpc, tidx, jidx, stopped, nadd, lastadd,
                   nstart, apiVars, dlVars, startVars, healthVars, funVars>>

\* _process_line: the position in tunnel_list of the first tunnel whose
\* pattern matches the line, 0 when none does.
RECURSIVE MatchingFrom(_, _)
MatchingFrom(k, line) ==
    IF k > Len(tunnel_list) THEN 0
    ELSE IF ExtractUrl(tunnel_list[k], line) # << >> THEN k
    ELSE MatchingFrom(k + 1, line)

\* invoke_callback: an exception of the callback is logged.
InvokeCallbackUncaught(callback) ==
    IF callback = "raises" THEN "raise" ELSE "returned"
InvokeCallback(callback) ==
    IF callback = "raises" THEN "logged" ELSE "returned"

\* extract_url, after the append to urls: the callback of the matching tunnel.
CallbackOutcome(line) ==
    LET k == MatchingFrom(1, line)
    IN IF k = 0 \/ tunnel_list[k].callback = "none" THEN "none"
       ELSE InvokeCallback(tunnel_list[k].callback)

\* monitor_process_output: readline returns a line the subprocess wrote.
\* An exception that leaves _process_line ends the loop and is logged by
\* _run.
MonitorLine(i, line) ==
    /\ i \in TunnelThreads /\ tpc[i] = "read"
    /\ IF urlx[i]
       THEN /\ UNCHANGED <<urls, urlx>>
            /\ tpc' = [tpc EXCEPT ![i] = "loop"]
       ELSE LET found == ProcessLine(line)
            IN /\ urls' = urls \o found
               /\ urlx' = [urlx EXCEPT ![i] = found # << >>]
               /\ tpc' = [tpc EXCEPT ![i] =
                     IF found # << >> /\ CallbackOutcome(line) = "raise"
                     THEN "done" ELSE "loop"]
    /\ UNCHANGED <<check_local_port, portOpen, tunnel_list, tunnel_statuses,
                   is_running, stop_event, printed, jobs, processes, proc,
                   mpc, tidx, jidx, stopped, nadd, lastadd, nstart,
                   apiVars, dlVars, startVars, healthVars, funVars>>

\* monitor_process_output: readline returns '' at the end of the output.
MonitorEof(i) ==
    /\ i \in TunnelThreads /\ tpc[i] = "read"
    /\ proc[i] = "exited"
    /\ tpc' = [tpc EXCEPT ![i] = "done"]
    /\ UNCHANGED <<check_local_port, portOpen, tunnel_list, tunnel_statuses,
                   is_running, stop_event, printed, urls, jobs, processes, urlx,
                   proc, mpc, tidx, jidx, stopped, nadd, lastadd,
                   nstart, apiVars, dlVars, startVars, healthVars, funVars>>

\* A subprocess ends by itself.
ProcExits(i) ==
    /\ i \in DOMAIN proc /\ proc[i] = "running"
    /\ proc' = [proc EXCEPT ![i] = "exited"]
    /\ UNCHANGED <<check_local_port, portOpen, tunnel_list, tunnel_statuses,
                   is_running, stop_event, printed, urls, jobs, processes, tpc,
                   urlx, mpc, tidx, jidx, stopped, nadd, lastadd,
                   nstart, apiVars, dlVars, startVars, healthVars, funVars>>

\* _print: the wait for the port is over.
PrintPortReady ==
    /\ 0 \in Threads /\ tpc[0] = "start"
    /\ PortWaitOver
    /\ tpc' = [tpc EXCEPT ![0] = "wait"]
    /\ UNCHANGED <<check_local_port, portOpen, tunnel_list, tunnel_statuses,
                   is_running, stop_event, printed, urls, jobs, processes, urlx,
                   proc, mpc, tidx, jidx, stopped, nadd, lastadd,
                   nstart, apiVars, dlVars, startVars, healthVars, funVars>>

\* _print: wait_for_condition returns, its condition true or its time out.
\* When it times out (its condition was false at the last test), _print
\* logs the timeout warning.
PrintWaitOver(timedout) ==
    /\ 0 \in Threads /\ tpc[0] = "wait"
    /\ timedout = ~(Len(urls) = Len(tunnel_list) \/ stop_event)
    /\ tpc' = [tpc EXCEPT ![0] = IF timedout THEN "showwarn" ELSE "show"]
    /\ UNCHANGED <<check_local_port, portOpen, tunnel_list, tunnel_statuses,
                   is_running, stop_event, printed, urls, jobs, processes, urlx,
                   proc, mpc, tidx, jidx, stopped, nadd, lastadd,
                   nstart, apiVars, dlVars, startVars, healthVars, funVars>>

\* _print: the test `if not self.stop_event.is_set()`.
PrintShow ==
    /\ 0 \in Threads /\ tpc[0] \in {"show", "showwarn"}
    /\ tpc' = [tpc EXCEPT ![0] =
                 IF stop_event THEN "done"
                 ELSE IF tpc[0] = "showwarn" THEN "displaywarn" ELSE "display"]
    /\ UNCHANGED <<check_local_port, portOpen, tunnel_list, tunnel_statuses,
                   is_running, stop_event, printed, urls, jobs, processes, urlx,
                   proc, mpc, tidx, jidx, stopped, nadd, lastadd,
                   nstart, apiVars, dlVars, startVars, healthVars, funVars>>

\* display_urls: the summary is printed; with a supervisor-level callback,
\* invoke_callback(self.callback, self.urls) lacks two arguments, the
\* TypeError ends the printer thread and the printed event stays clear.
DisplayUrls ==
    /\ 0 \in Threads /\ tpc[0] \in {"display", "displaywarn"}
    /\ printed' = IF supcb THEN printed ELSE TRUE
    /\ tpc' = [tpc EXCEPT ![0] = "done"]
    /\ UNCHANGED <<check_local_port, portOpen, tunnel_list, tunnel_statuses,
                   is_running, stop_event, urls, jobs, processes, urlx,
                   proc, mpc, tidx, jidx, stopped, nadd, lastadd,
                   nstart, apiVars, dlVars, startVars, healthVars, funVars>>

\* stop past its test: the flag is set.
StopSet ==
    /\ stop_event' = TRUE
    /\ mpc' = "terminate"
    /\ tidx' = 1
    /\ UNCHANGED <<check_local_port, portOpen, tunnel_list, tunnel_statuses,
                   is_running, printed, urls, jobs, processes, tpc, urlx, proc,
                   jidx, stopped, nadd, lastadd, nstart, apiVars,
                   dlVars, startVars, healthVars, funVars>>

\* stop() of a running supervisor.
StopBegin == mpc = "idle" /\ is_running /\ StopSet

\* The test of stop(): RuntimeError('Tunnel is not running').
StopErrorNever == "none"
StopError == IF is_running THEN "none" ELSE "NotRunning"

\* stop(): refused, or begun.
StopCall ==
    /\ mpc = "idle"
    /\ IF StopError # "none" THEN Refuse(StopError) ELSE StopSet

\* What terminate() and wait(timeout=5) leave of a subprocess: one that
\* does not end within the five seconds is still running when the wait
\* times out, and the TimeoutExpired is logged.
AfterTerminate(state, intime) ==
    IF state = "running" /\ intime THEN "exited" ELSE state

\* terminate_processes: one turn of the loop over self.processes.
TerminateOne(intime) ==
    /\ mpc = "terminate" /\ tidx <= Len(processes)
    /\ LET p == processes[tidx]
       IN proc' = [proc EXCEPT ![p] = AfterTerminate(proc[p], intime)]
    /\ tidx' = tidx + 1
    /\ UNCHANGED <<check_local_port, portOpen, tunnel_list, tunnel_statuses,
                   is_running, stop_event, printed, urls, jobs, processes, tpc,
                   urlx, mpc, jidx, stopped, nadd, lastadd, nstart,
                   apiVars, dlVars, startVars, healthVars, funVars>>

\* terminate_processes: the loop is over, self.processes.clear().
TerminateEnd ==
    /\ mpc = "terminate" /\ tidx > Len(processes)
    /\ processes' = << >>
    /\ mpc' = "join"
    /\ jidx' = 1
    /\ UNCHANGED <<check_local_port, portOpen, tunnel_list, tunnel_statuses,
                   is_running, stop_event, printed, urls, jobs, tpc, urlx, proc,
                   tidx, stopped, nadd, lastadd, nstart, apiVars,
                   dlVars, startVars, healthVars, funVars>>

\* join_threads: job.join() returns for a thread that has ended.
JoinOne ==
    /\ mpc = "join" /\ jidx <= Len(jobs)
    /\ tpc[jobs[jidx]] = "done"
    /\ jidx' = jidx + 1
    /\ UNCHANGED <<check_local_port, portOpen, tunnel_list, tunnel_statuses,
                   is_running, stop_event, printed, urls, jobs, processes, tpc,
                   urlx, proc, mpc, tidx, stopped, nadd, lastadd,
                   nstart, apiVars, dlVars, startVars, healthVars, funVars>>

\* reset, and stop returns.
Reset ==
    /\ mpc = "join" /\ jidx > Len(jobs)
    /\ urls' = << >>
    /\ jobs' = << >>
    /\ processes' = << >>
    /\ stop_event' = FALSE
    /\ printed' = FALSE
    /\ is_running' = FALSE
    /\ mpc' = "idle"
    /\ tidx' = 0
    /\ jidx' = 0
    /\ tpc' = << >>
    /\ urlx' = << >>
    /\ stopped' = TRUE
    /\ UNCHANGED <<check_local_port, portOpen, tunnel_list, tunnel_statuses,
                   proc, nadd, lastadd, nstart, apiVars, dlVars, startVars,
                   healthVars, funVars>>

NextTun ==
    \/ \E t \in TunnelInputs : AddTunnel(t)
    \/ Enter
    \/ PortOpens
    \/ \E i \in TunnelThreads : RunPortReady(i)
    \/ \E i \in TunnelThreads : RunSpawn(i)
    \/ \E i \in TunnelThreads : RunSpawnFails(i)
    \/ \E i \in TunnelThreads : MonitorTest(i)
    \/ \E i \in TunnelThreads, line \in Lines : MonitorLine(i, line)
    \/ \E i \in TunnelThreads : MonitorEof(i)
    \/ \E i \in DOMAIN proc : ProcExits(i)
    \/ PrintPortReady
    \/ \E timedout \in BOOLEAN : PrintWaitOver(timedout)
    \/ PrintShow
    \/ DisplayUrls
    \/ StopBegin
    \/ \E intime \in BOOLEAN : TerminateOne(intime)
    \/ TerminateEnd
    \/ JoinOne
    \/ Reset
    \/ \E failing \in {{}, {"ngrok"}, TNames} : PerformHealthChecks(failing)

InitTun == ApiIdle /\ DlIdle /\ TunInit /\ HealthIdle /\ FunIdle
SpecTun == InitTun /\ [][NextTun]_vars

(***************************************************************************)
(* Tunnel.start: a supervisor whose tunnels were added before, started     *)
(* with start() or entered as a context, stopped from another thread       *)
(***************************************************************************)
\* The tunnel_list the add_tunnel calls before the start have left.
QueuedTunnel(name) == CHOOSE t \in TunnelInputs :
                         t.name = name /\ IsCommandAvailable(Head(t.command))
StartLists == {<< >>, <<QueuedTunnel("ngrok")>>,
               <<QueuedTunnel("ngrok"), QueuedTunnel("lt")>>}

\* What the subprocesses print in these runs: a line with an ngrok URL, a
\* line without any URL.
StartLines == {LineNgrok, LineNoise}

StartInit ==
    /\ check_local_port \in BOOLEAN
    /\ supcb \in BOOLEAN
    /\ tunnel_list \in StartLists
    /\ tunnel_statuses =
          [n \in TNames |->
             IF \E k \in DOMAIN tunnel_list : tunnel_list[k].name = n
             THEN TunnelStatus("initializing", << >>) ELSE NoStatus]
    /\ nadd = Len(tunnel_list)
    /\ lastadd = IF tunnel_list = << >> THEN NoAdd
                 ELSE [command |-> tunnel_list[Len(tunnel_list)].command,
                       name |-> tunnel_list[Len(tunnel_list)].name]
    /\ portOpen = FALSE
    /\ is_running = FALSE
    /\ stop_event = FALSE
    /\ printed = FALSE
    /\ urls = << >>
    /\ jobs = << >>
    /\ processes = << >>
    /\ tpc = << >>
    /\ urlx = << >>
    /\ proc = << >>
    /\ mpc = "idle"
    /\ tidx = 0
    /\ jidx = 0
    /\ stopped = FALSE
    /\ nstart = 0
    /\ spc = "idle"
    /\ refused = "none"

NextStart ==
    \/ StartCall
    \/ StartReturn
    \/ EnterCall
    \/ PortOpens
    \/ \E i \in TunnelThreads : RunPortReady(i)
    \/ \E i \in TunnelThreads : RunSpawn(i)
    \/ \E i \in TunnelThreads : RunSpawnFails(i)
    \/ \E i \in TunnelThreads : MonitorTest(i)
    \/ \E i \in TunnelThreads, line \in StartLines : MonitorLine(i, line)
    \/ \E i \in TunnelThreads : MonitorEof(i)
    \/ \E i \in DOMAIN proc : ProcExits(i)
    \/ PrintPortReady
    \/ \E timedout \in BOOLEAN : PrintWaitOver(timedout)
    \/ PrintShow
    \/ DisplayUrls
    \/ StopCall
    \/ \E intime \in BOOLEAN : TerminateOne(intime)
    \/ TerminateEnd
    \/ JoinOne
    \/ Reset

InitStart == ApiIdle /\ DlIdle /\ StartInit /\ HealthIdle /\ FunIdle
SpecStart == InitStart /\ [][NextStart]_vars

\* Every thread that can take a step of its own eventually takes it, and a
\* wait with a finite timeout ends.  Nothing makes the local port open, a
\* subprocess print or exit, or a caller call start() or stop().
StartFairness ==
    /\ WF_vars(StartReturn)
    /\ \A i \in 1..MaxAdds :
          /\ WF_vars(RunPortReady(i))
          /\ WF_vars(RunSpawn(i) \/ RunSpawnFails(i))
          /\ WF_vars(MonitorTest(i))
          /\ WF_vars(MonitorEof(i))
    /\ WF_vars(PrintPortReady)
    /\ WF_vars(\E timedout \in BOOLEAN : PrintWaitOver(timedout))
    /\ WF_vars(PrintShow)
    /\ WF_vars(DisplayUrls)
    /\ WF_vars(\E intime \in BOOLEAN : TerminateOne(intime))
    /\ WF_vars(TerminateEnd)
    /\ WF_vars(JoinOne)
    /\ WF_vars(Reset)
SpecStartFair == InitStart /\ [][NextStart]_vars /\ StartFairness

\* A supervisor with one tunnel whose owner starts the health monitor,
\* enters and stops at any moment.
HealthInit == StartInit /\ ~check_local_port /\ ~supcb /\ Len(tunnel_list) = 1
NextHealth ==
    \/ EnterCall
    \/ \E i \in TunnelThreads : RunPortReady(i)
    \/ \E i \in TunnelThreads : RunSpawn(i)
    \/ \E i \in TunnelThreads : MonitorTest(i)
    \/ \E i \in TunnelThreads, line \in StartLines : MonitorLine(i, line)
    \/ \E i \in TunnelThreads : MonitorEof(i)
    \/ \E i \in DOMAIN proc : ProcExits(i)
    \/ PrintPortReady
    \/ \E timedout \in BOOLEAN : PrintWaitOver(timedout)
    \/ PrintShow
    \/ DisplayUrls
    \/ StopCall
    \/ \E intime \in BOOLEAN : TerminateOne(intime)
    \/ TerminateEnd
    \/ JoinOne
    \/ Reset
    \/ StartHealthMonitoring
    \/ \E k \in Monitors : HealthTest(k)
    \/ \E k \in Monitors, failing \in {{}, {"ngrok"}} : HealthCheck(k, failing)
    \/ \E k \in Monitors : HealthWake(k)

InitHealth == ApiIdle /\ DlIdle /\ HealthInit /\ HealthIdle /\ FunIdle
SpecHealth == InitHealth /\ [][NextHealth]_vars

\* The threads of the supervisor and the monitor threads all get to run.
HealthFairness ==
    /\ StartFairness
    /\ \A k \in 1..MaxMonitors :
          /\ WF_vars(HealthTest(k))
          /\ WF_vars(\E failing \in {{}, {"ngrok"}} : HealthCheck(k, failing))
          /\ WF_vars(HealthWake(k))
SpecHealthFair == InitHealth /\ [][NextHealth]_vars /\ HealthFairness

(***************************************************************************)
(* EnhancedTunnel.add_tunnel: the configuration stored for a tunnel        *)
(***************************************************************************)
\* The defaults a supervisor is constructed with.
DefaultTimeout == 15
security_mode == "medium"

\* What CloudPlatformInfo.detect_platform can answer, and "unknown" when
\* auto_optimize_for_cloud is off.
Platforms == {"google_colab", "kaggle", "vast_ai", "paperspace", "local",
              "unknown"}

\* An argument left out, and an argument passed.
NoArg == [given |-> FALSE, v |-> 0]
Arg(v) == [given |-> TRUE, v |-> v]
NoStrArg == [given |-> FALSE, v |-> ""]

\* `x or default` on an Optional[int]: None and 0 both give the default.
OrDefault(a, default) == IF a.given /\ a.v # 0 THEN a.v ELSE default

\* optimize_tunnel_for_cloud: every key is present in the dict add_tunnel
\* passes, so the setdefault calls change nothing.
OptimizeTunnelForCloud(platform, d) ==
    IF platform \in {"google_colab", "kaggle"}
    THEN [d EXCEPT !.timeout = Max(d.timeout, 30),
                   !.retry_limit = Max(d.retry_limit, 5)]
    ELSE IF platform = "vast_ai"
    THEN [d EXCEPT !.security_level = "high"]
    ELSE d

\* The tunnel_config add_tunnel appends to tunnel_list; security_level
\* has the default "medium" in the signature.
TunnelConfig(in) ==
    LET d == [retry_limit |-> OrDefault(in.retry_limit, max_retries),
              timeout |-> OrDefault(in.timeout, DefaultTimeout),
              security_level |-> IF in.security_level.given
                                 THEN in.security_level.v ELSE "medium",
              cloud_optimized |-> in.cloud_optimized]
    IN IF in.cloud_optimized THEN OptimizeTunnelForCloud(in.platform, d)
       ELSE d

CfgInputs ==
    [platform : Platforms,
     timeout : {NoArg, Arg(0), Arg(10), Arg(60)},
     retry_limit : {NoArg, Arg(0), Arg(2), Arg(7)},
     security_level : {NoStrArg, Arg("low"), Arg("medium"), Arg("high")},
     cloud_optimized : BOOLEAN]

AddTunnelConfig ==
    /\ fpc = "call"
    /\ fout' = TunnelConfig(fin)
    /\ fpc' = "done"
    /\ UNCHANGED <<fin, apiVars, dlVars, tunVars, healthVars>>

CfgInit == fpc = "call" /\ fin \in CfgInputs /\ fout = << >>
InitCfg == ApiIdle /\ DlIdle /\ TunIdle /\ HealthIdle /\ CfgInit
SpecCfg == InitCfg /\ [][AddTunnelConfig]_vars

(***************************************************************************)
(* CivitAiAPI._process_url                                                 *)
(***************************************************************************)
S_question == <<"?">>
S_amp == <<"&">>
S_eq == <<"=">>
S_token == <<"t","o","k","e","n">>
S_tokenParam == <<"?","t","o","k","e","n","=">>
S_format == <<"f","o","r","m","a","t","=","S","T">>
S_oldToken == <<"t","o","k","e","n","=","o","l","d">>
S_key == <<"k","1">>
DefaultToken == <<"6","5","b","6">>

\* self.token = token or <the default token>
ClientToken(arg) == IF arg # << >> THEN arg ELSE DefaultToken

\* str.split(sep)
RECURSIVE Split(_, _)
Split(s, sep) ==
    IF Find(s, sep) = 0 THEN <<s>>
    ELSE <<SubSeq(s, 1, Find(s, sep) - 1)>>
         \o Split(SubSeq(s, Find(s, sep) + Len(sep), Len(s)), sep)

\* sep.join(parts)
RECURSIVE Join(_, _)
Join(parts, sep) ==
    IF parts = << >> THEN << >>
    ELSE IF Len(parts) = 1 THEN Head(parts)
    ELSE Head(parts) \o sep \o Join(Tail(parts), sep)

\* urlparse on a URL without fragment: what precedes the first "?" (scheme,
\* host and path, which geturl puts back unchanged) and the query after it.
UrlParse(url) ==
    IF Find(url, S_question) = 0
    THEN [base |-> url, query |-> << >>]
    ELSE [base |-> SubSeq(url, 1, Find(url, S_question) - 1),
          query |-> SubSeq(url, Find(url, S_question) + 1, Len(url))]

\* parse_qs: the pieces between "&" that hold a "=" and a value that is
\* not blank, as a dict from name to the list of its values, in order of
\* first appearance.
QsPairs(query) ==
    LET kept == SelectSeq(Split(query, S_amp),
                          LAMBDA p : /\ Find(p, S_eq) # 0
                                     /\ Find(p, S_eq) < Len(p))
    IN [k \in DOMAIN kept |->
           [name |-> SubSeq(kept[k], 1, Find(kept[k], S_eq) - 1),
            value |-> SubSeq(kept[k], Find(kept[k], S_eq) + 1, Len(kept[k]))]]
RECURSIVE QsDict(_, _)
QsDict(pairs, d) ==
    IF pairs = << >> THEN d
    ELSE LET p == Head(pairs)
         IN QsDict(Tail(pairs),
                   IF \E k \in DOMAIN d : d[k].name = p.name
                   THEN [k \in DOMAIN d |->
                           IF d[k].name = p.name
                           THEN [d[k] EXCEPT !.values = Append(@, p.value)]
                           ELSE d[k]]
                   ELSE Append(d, [name |-> p.name, values |-> <<p.value>>]))
ParseQs(query) == QsDict(QsPairs(query), << >>)

\* query.pop(name, None)
DictPop(d, name) == SelectSeq(d, LAMBDA e : e.name # name)

\* urlencode(query, doseq=True) on names and values without reserved
\* characters: name=value for every value, joined with "&".
RECURSIVE EncodedPairs(_)
EncodedPairs(d) ==
    IF d = << >> THEN << >>
    ELSE [k \in DOMAIN Head(d).values |->
             Head(d).name \o S_eq \o Head(d).values[k]]
         \o EncodedPairs(Tail(d))
UrlEncode(d) == Join(EncodedPairs(d), S_amp)

\* parsed._replace(query=q).geturl(): no "?" when the query is empty.
GetUrl(base, query) ==
    IF query = << >> THEN base ELSE base \o S_question \o query

\* _process_url: (clean_url, final_url)
ProcessUrl(download_url, token) ==
    LET parsed == UrlParse(download_url)
        query == DictPop(ParseQs(parsed.query), S_token)
        clean_url == GetUrl(parsed.base, UrlEncode(query))
    IN [clean |-> clean_url,
        final |-> IF token # << >> THEN clean_url \o S_tokenParam \o token
                  ELSE clean_url]

\* The downloadUrl values of the metadata: a download endpoint followed by
\* any of the parameters type, format and token, in any order.
UrlParams == {S_type, S_format, S_oldToken}
ParamLists ==
    {ps \in UNION {[1..n -> UrlParams] : n \in 0..MaxParams} :
        \A i, j \in DOMAIN ps : i # j => ps[i] # ps[j]}
DownloadUrls ==
    {GetUrl(S_https \o S_host \o S_download \o id, Join(ps, S_amp)) :
        id \in ModelIds, ps \in ParamLists}
UrlInputs == [url : DownloadUrls, token : {<< >>, S_key}]

ProcessUrlCall ==
    /\ fpc = "call"
    /\ fout' = ProcessUrl(fin.url, ClientToken(fin.token))
    /\ fpc' = "done"
    /\ UNCHANGED <<fin, apiVars, dlVars, tunVars, healthVars>>

UrlInit == fpc = "call" /\ fin \in UrlInputs /\ fout = << >>
InitUrl == ApiIdle /\ DlIdle /\ TunIdle /\ HealthIdle /\ UrlInit
SpecUrl == InitUrl /\ [][ProcessUrlCall]_vars

\* Direct calls of download_model_with_progress, one after the other.
NextDl ==
    \/ \E i \in Items, mkfail \in BOOLEAN : DirectCall(i, mkfail)
    \/ \E i \in Items : DlRequestFail(i)
    \/ \E i \in Items, cl \in ContentLengths : DlResponse(i, cl)
    \/ \E i \in Items : DlChunk(i)
    \/ \E i \in Items : DlStreamError(i)
    \/ \E i \in Items : DlComplete(i)
    \/ \E i \in Items : DirectReturn(i)

InitDl == ApiIdle /\ DlInit /\ TunIdle /\ HealthIdle /\ FunIdle
SpecDl == InitDl /\ [][NextDl]_vars

\* Batches of downloads run by the worker pool.
NextBatch ==
    \/ BatchCall
    \/ \E i \in Items, mkfail \in BOOLEAN : WorkerStart(i, mkfail)
    \/ \E i \in Items : DlRequestFail(i)
    \/ \E i \in Items, cl \in ContentLengths : DlResponse(i, cl)
    \/ \E i \in Items : DlChunk(i)
    \/ \E i \in Items : DlStreamError(i)
    \/ \E i \in Items : DlComplete(i)
    \/ \E i \in Items : BatchCollect(i)
    \/ BatchReturn
    \/ BatchDone

SpecBatch == InitDl /\ [][NextBatch]_vars

\* Callers whose callbacks may raise: a client used for direct calls, or a
\* client used for batches.
NextCb ==
    \/ \E i \in Items, mkfail \in BOOLEAN, raises \in BOOLEAN :
           nbatch = 0 /\ DirectCallCb(i, mkfail, raises)
    \/ \E i \in Items : DirectReturn(i)
    \/ \E raises \in BOOLEAN : ndl = 0 /\ BatchCallCb(raises)
    \/ \E i \in Items, mkfail \in BOOLEAN : WorkerStart(i, mkfail)
    \/ \E i \in Items : DlRequestFail(i)
    \/ \E i \in Items, cl \in ContentLengths : DlResponse(i, cl)
    \/ \E i \in Items : DlChunk(i)
    \/ \E i \in Items : DlStreamError(i)
    \/ \E i \in Items : DlComplete(i)
    \/ \E i \in Items : BatchCollect(i)
    \/ BatchReturn
    \/ BatchDone

SpecCb == InitDl /\ [][NextCb]_vars

\* Batches of PoolItems downloads whose bodies arrive at once.
NextPool ==
    \/ BatchCall
    \/ \E i \in Items : WorkerStart(i, FALSE)
    \/ \E i \in Items : DlRequestFail(i)
    \/ \E i \in Items : DlResponse(i, 0)
    \/ \E i \in Items : DlComplete(i)
    \/ \E i \in Items : BatchCollect(i)
    \/ BatchReturn
    \/ BatchDone

InitPool == ApiIdle /\ PoolInit /\ TunIdle /\ HealthIdle /\ FunIdle
SpecPool == InitPool /\ [][NextPool]_vars

\* The same batches with the steps of the worker threads interleaved as
\* the interpreter interleaves them.
NextRace ==
    \/ BatchCall
    \/ \E i \in Items : WorkerStart(i, FALSE)
    \/ \E i \in Items : DlRequestFail(i)
    \/ \E i \in Items : DlResponse(i, 0)
    \/ \E i \in Items : LogCompleteRead(i)
    \/ \E i \in Items : LogCompleteWrite(i)
    \/ \E i \in Items : BatchCollect(i)
    \/ BatchReturn
    \/ BatchDone

SpecRace == InitPool /\ [][NextRace]_vars

InitApi == ApiInit /\ DlIdle /\ TunIdle /\ HealthIdle /\ FunIdle

NextApi ==
    \/ \E u \in ApiUrls, uc \in BOOLEAN : GetCall(u, uc)
    \/ \E d \in Bodies : GetRequestOk(d)
    \/ GetRequestFail
    \/ GetReturn
    \/ ClearCache
    \/ \E d \in ClockSteps : Tick(d)

SpecApi == InitApi /\ [][NextApi]_vars

\* Version-id resolution, on a client whose cache earlier calls may have filled.
NextEv ==
    \/ \E in \in EvInputs : ExtractCall(in)
    \/ ExtractResume
    \/ ExtractReturn
    \/ \E u \in ApiUrls, uc \in BOOLEAN : GetCall(u, uc)
    \/ \E d \in Bodies : GetRequestOk(d)
    \/ GetRequestFail
    \/ GetReturn

SpecEv == InitApi /\ [][NextEv]_vars

(***************************************************************************)
(* The metadata client: cache and retries                                  *)
(***************************************************************************)

\* C1: a _get(u, use_cache=True) made less than CacheTimeout seconds after
\* a successful _get(u, use_cache=True) fetched body d, with no clear_cache
\* in between, issues no HTTP request and returns exactly d, for every d,
\* the empty object and the empty list included.
C1_CacheHitServesEveryBody ==
    ghit.present => (gpc = "done" /\ greq = 0 /\ gret = Some(ghit.data))

\* The prefix of the answers of the transport: k failures, then a success.
FailsThenOk(k) ==
    /\ Len(transport) = k + 1
    /\ \A j \in 1..k : ~transport[j].ok
    /\ transport[k + 1].ok

\* C2: a _get whose first k attempts fail (k = 0, 1, 2) and whose next
\* attempt succeeds returns the body of that attempt, has issued k + 1
\* requests and has slept k times, RETRY_DELAY * n after the n-th failure,
\* each delay longer than the one before.
C2_RetryThenSuccess ==
    \A k \in 0..(RETRY_ATTEMPTS - 1) :
        (gpc = "done" /\ FailsThenOk(k)) =>
            /\ gret = Some(transport[k + 1].body)
            /\ greq = k + 1
            /\ Len(gsleeps) = k
            /\ \A n \in 1..k : gsleeps[n] = RETRY_DELAY * n
            /\ \A n \in 1..(k - 1) : gsleeps[n] < gsleeps[n + 1]

C2_Witness == gpc = "done" /\ FailsThenOk(2)

AllAttemptsFailed ==
    /\ gpc = "done"
    /\ Len(transport) > 0
    /\ \A j \in 1..Len(transport) : ~transport[j].ok

\* C3: a _get all of whose attempts fail issues exactly RETRY_ATTEMPTS
\* requests, sleeps RETRY_DELAY * n after the n-th failure for each failure
\* that another attempt follows, and returns None; no call ever issues more
\* than RETRY_ATTEMPTS requests.
C3_RetryExhaustion ==
    /\ greq <= RETRY_ATTEMPTS
    /\ AllAttemptsFailed =>
          /\ greq = RETRY_ATTEMPTS
          /\ gsleeps = [n \in 1..(RETRY_ATTEMPTS - 1) |-> RETRY_DELAY * n]
          /\ gret = None

C3_Witness == AllAttemptsFailed

(***************************************************************************)
(* Version-id resolution                                                   *)
(***************************************************************************)

\* C4: for a url with a scheme, _extract_version_id returns the value of
\* the modelVersionId parameter when there is one, without a fetch; else for
\* a /models/<digits> page the id of the first version listed by the one
\* metadata fetch it makes; else for an /api/download/models/<id> url the
\* id, without a fetch; and None without a fetch for a url without scheme
\* and for every other shape.
C4_VersionIdByShape ==
    evpc = "done" =>
        IF evin.scheme = "none" THEN evres = EvNone /\ evfetches = 0
        ELSE IF evin.mvid THEN evres = EvStr(S_123) /\ evfetches = 0
        ELSE IF evin.shape \in {"page", "pageslug"}
        THEN /\ evfetches = 1
             /\ (/\ evmeta.kind = "json"
                 /\ evmeta.body.hasMV
                 /\ Len(evmeta.body.versions) > 0
                 /\ evmeta.body.versions[1] # NoId)
                    => evres = EvNum(evmeta.body.versions[1])
        ELSE IF evin.shape = "download"
        THEN evres = EvStr(evin.id) /\ evfetches = 0
        ELSE evres = EvNone /\ evfetches = 0

C4_Witness ==
    /\ evpc = "done"
    /\ evin.shape = "pageslug" /\ evin.extra = "after" /\ ~evin.mvid
    /\ evres = EvNum(789)

(***************************************************************************)
(* Downloads                                                               *)
(***************************************************************************)

NonDecreasing(seq) ==
    \A a \in 1..Len(seq) : \A b \in a..Len(seq) : seq[a] <= seq[b]

\* C6: in every download_model_with_progress call the progress values
\* given to the callback never decrease, and a call that succeeds reports
\* 100 last.
C6_ProgressNeverDecreases ==
    \A i \in Items :
        /\ NonDecreasing(cbs[i])
        /\ (wpc[i] = "finished" /\ res[i] = "true") =>
               (Len(cbs[i]) > 0 /\ cbs[i][Len(cbs[i])] = 100)

\* C7: download_multiple_models returns a map with one entry per submitted
\* item, True exactly for the items whose download succeeded, and has
\* called the overall callback once per item, with the counts 1..N.
C7_BatchReportsEveryItem ==
    bpc = "returned" =>
        /\ Cardinality({n \in Names : results[n] # "absent"}) = Len(items)
        /\ \A i \in Items : (results[items[i].name] = "true") <=> (res[i] = "true")
        /\ Len(overallCb) = Len(items)
        /\ \A k \in 1..Len(overallCb) : overallCb[k].completed = k


\* C8: under every interleaving of stop() with the tunnel threads, no
\* subprocess the supervisor spawned is still running once stop() has
\* returned.
C8_NoSubprocessAfterStop ==
    stopped => \A i \in DOMAIN proc : proc[i] # "running"

\* The step is an add_tunnel call whose command's first word is not installed.
AddOfMissing ==
    /\ nadd' = nadd + 1
    /\ Head(lastadd'.command) \notin InstalledCommands

\* The step is an add_tunnel call whose command's first word is installed.
AddOfInstalled ==
    /\ nadd' = nadd + 1
    /\ Head(lastadd'.command) \in InstalledCommands

\* C9: add_tunnel with a command whose first word is not an executable on
\* PATH sets tunnel_statuses[name] to failed with a message that names the
\* command, leaves tunnel_list, the threads and the subprocesses as they
\* were, and leaves the status of every other name alone; an add_tunnel of
\* an installed command, before or after it, queues the tunnel, and
\* __enter__ starts one thread for the printer and one per queued tunnel.
C9_MissingExecutable ==
    [][/\ AddOfMissing =>
            /\ tunnel_statuses'[lastadd'.name].present
            /\ tunnel_statuses'[lastadd'.name].status = "failed"
            /\ tunnel_statuses'[lastadd'.name].error_message =
                   NotAvailable(Head(lastadd'.command))
            /\ \A n \in TNames \ {lastadd'.name} :
                   tunnel_statuses'[n] = tunnel_statuses[n]
            /\ tunnel_list' = tunnel_list
            /\ jobs' = jobs /\ tpc' = tpc
            /\ processes' = processes /\ proc' = proc
       /\ AddOfInstalled =>
            /\ Len(tunnel_list') = Len(tunnel_list) + 1
            /\ SubSeq(tunnel_list', 1, Len(tunnel_list)) = tunnel_list
            /\ tunnel_list'[Len(tunnel_list')].command = lastadd'.command
            /\ tunnel_list'[Len(tunnel_list')].name = lastadd'.name
            /\ tunnel_statuses'[lastadd'.name].status = "initializing"
       /\ (~is_running /\ is_running') =>
            /\ tunnel_list # << >>
            /\ DOMAIN tpc' = 0..Len(tunnel_list)
            /\ \A k \in 0..Len(tunnel_list) : tpc'[k] = "start"
            /\ Len(jobs') = Len(jobs) + 1 + Len(tunnel_list)
      ]_vars

\* A tunnel whose executable is missing was refused, and the tunnel queued
\* with it has started: its subprocess runs.
C9_Witness ==
    /\ tunnel_statuses["zrok"].status = "failed"
    /\ Len(tunnel_list) = 1
    /\ nadd = 2
    /\ 1 \in DOMAIN proc /\ proc[1] = "running"

\* C10: every URL extract_url stores begins with http:// or https://, and
\* the line "your url is: https://abc123.ngrok.io" under the ngrok pattern
\* is stored as exactly https://abc123.ngrok.io.
C10_StoredUrlsHaveScheme ==
    /\ \A k \in 1..Len(urls) :
           StartsWith(urls[k].link, S_http) \/ StartsWith(urls[k].link, S_https)
    /\ ExtractUrl([pattern |-> PatNgrok, note |-> "", name |-> "ngrok"],
                  LineNgrok)[1].link = UrlNgrok

\* The call on item i found its destination absent, sent its request and
\* is over.
TransferOver(i) ==
    wpc[i] = "finished" /\ fileBefore[i] = "absent" /\ dreq[i] > 0

\* C11: a download_model_with_progress call that found its destination
\* absent and met an exception returns False with the destination absent
\* and the descriptor failed; a call that returns True leaves the complete
\* file.
C11_PartialTransferCleanup ==
    \A i \in Items :
        TransferOver(i) =>
            IF res[i] = "true"
            THEN files[items[i].path] = "full"
            ELSE /\ res[i] = "false"
                 /\ files[items[i].path] = "absent"
                 /\ dst[i].status = "failed"

\* C12: a progress callback that raises does not change the outcome of a
\* transfer: the exception does not leave download_model_with_progress, a
\* call whose bytes were all written returns True, and the batch records
\* True for it.
C12_DownloadCallbacksIsolated ==
    /\ \A i \in Items :
           (wpc[i] = "finished" /\ res[i] = "raise") =>
               (fileBefore[i] = "absent" /\ dreq[i] = 0)
    /\ \A i \in Items :
           (TransferOver(i) /\ files[items[i].path] = "full") => res[i] = "true"
    /\ bpc = "returned" =>
           \A i \in Items :
               (/\ res[i] = "true"
                /\ \A j \in Items : items[j].name = items[i].name => j = i)
                   => results[items[i].name] = "true"

\* C17: the status of a descriptor changes only from pending to downloading
\* and from downloading to completed or failed, and a descriptor that is
\* completed or failed keeps its status and its progress in every later call.
C17_DescriptorLifecycle ==
    [][\A i \in Items :
          /\ dst'[i].status # dst[i].status =>
                <<dst[i].status, dst'[i].status>> \in
                    {<<"pending", "downloading">>,
                     <<"downloading", "completed">>,
                     <<"downloading", "failed">>}
          /\ dst[i].status \in {"completed", "failed"} =>
                /\ dst'[i].status = dst[i].status
                /\ dst'[i].progress = dst[i].progress
      ]_vars

\* C14: at every instant of download_multiple_models the items being
\* transferred number at most MAX_CONCURRENT_DOWNLOADS, and at most
\* self.max_workers, whatever max_workers the client was constructed with
\* and however many items the batch has.
C14_BoundedWorkerPool ==
    /\ Cardinality(Running) <= MAX_CONCURRENT_DOWNLOADS
    /\ InBatch => Cardinality(Running) <= maxWorkers

\* three transfers run while a fourth item waits for a worker
C14_Witness ==
    /\ InBatch
    /\ Cardinality(Running) = MAX_CONCURRENT_DOWNLOADS
    /\ Queued # {}

\* C18: for every tunnel name the status in tunnel_statuses never moves
\* backward along initializing -> connecting -> connected ->
\* {disconnected, failed}: no step lowers the rank of a status, failed and
\* disconnected are never left, and a name under which a URL has been
\* recorded in urls is connected.
StatusRank(status) ==
    CASE status = "initializing" -> 0
      [] status = "connecting" -> 1
      [] status = "connected" -> 2
      [] OTHER -> 3
UrlNames(us) == {us[k].name : k \in DOMAIN us}
C18_TunnelStatusForwardOnly ==
    [][\A n \in TNames :
         /\ tunnel_statuses[n].present
            => /\ StatusRank(tunnel_statuses'[n].status)
                    >= StatusRank(tunnel_statuses[n].status)
               /\ tunnel_statuses[n].status \in {"failed", "disconnected"}
                    => tunnel_statuses'[n].status = tunnel_statuses[n].status
         /\ n \in UrlNames(urls')
            => tunnel_statuses'[n].status = "connected"]_vars

\* C13: when a line makes a per-tunnel URL callback raise, the exception is
\* caught: the URL is recorded in urls, the thread that read the line goes
\* on with its read loop, and no other thread and no subprocess is touched.
\* The step is the one in which a reading thread appends an entry of a
\* tunnel whose callback raises.
RaisingEntry(e) ==
    \E t \in DOMAIN tunnel_list :
       /\ tunnel_list[t].name = e.name /\ tunnel_list[t].note = e.note
       /\ tunnel_list[t].callback = "raises"
C13_TunnelCallbacksIsolated ==
    [][\A i \in TunnelThreads :
         (/\ tpc[i] = "read" /\ tpc'[i] # "read"
          /\ Len(urls') = Len(urls) + 1
          /\ RaisingEntry(urls'[Len(urls')]))
         => /\ SubSeq(urls', 1, Len(urls)) = urls
            /\ tpc'[i] = "loop"
            /\ urlx'[i]
            /\ \A j \in Threads \ {i} : tpc'[j] = tpc[j]
            /\ proc' = proc /\ stop_event' = stop_event]_vars
\* A thread that recorded the URL of a tunnel whose callback raises is
\* back at its loop test while another tunnel thread is still reading.
C13_Witness ==
    \E i \in TunnelThreads :
       /\ tpc[i] = "loop" /\ urlx[i]
       /\ \E k \in DOMAIN urls, t \in DOMAIN tunnel_list :
             /\ urls[k].name = tunnel_list[t].name
             /\ tunnel_list[t].callback = "raises"
       /\ \E j \in TunnelThreads \ {i} : tpc[j] = "read"

\* C16: with a finite timeout configured, a start() that has begun to wait
\* for the printed event eventually returns.
C16_StartEventuallyReturns == (spc = "waiting") ~> (spc = "returned")

PrintsSummary == 0 \in Threads /\ tpc[0] \in {"display", "displaywarn"}
EveryTunnelHasUrl ==
    \A k \in DOMAIN tunnel_list : tunnel_list[k].name \in UrlNames(urls)
C20_PrinterSynchronised ==
    [][(PrintsSummary /\ 0 \in DOMAIN tpc' /\ tpc'[0] = "done")
       => /\ ~stop_event
          /\ tpc[0] = "displaywarn" \/ EveryTunnelHasUrl]_vars

\* C19: shared state is only updated under a lock, so no update is lost:
\* every worker that completes a transfer leaves completed_files of the
\* download statistics one higher than it was just before.
C19_NoLostStatisticsUpdate ==
    [][\A i \in Items :
         (wpc[i] \in {"stream", "logging"} /\ wpc'[i] = "finished"
          /\ dst'[i].status = "completed")
         => stats'.completed_files = stats.completed_files + 1]_vars

\* C30: when download_multiple_models has returned, completed_files is the
\* number of True results of the batch, failed_files the number of False
\* results, the two add up to total_files, and the success rate
\* completed_files / total_files is at most 100%.
TrueResults == {n \in Names : results[n] = "true"}
FalseResults == {n \in Names : results[n] = "false"}
C30_BatchStatisticsAgree ==
    bpc = "returned"
    => /\ stats.completed_files = Cardinality(TrueResults)
       /\ stats.failed_files = Cardinality(FalseResults)
       /\ stats.completed_files + stats.failed_files = stats.total_files
       /\ stats.completed_files <= stats.total_files

\* C25: a _get with use_cache=False is never answered from the cache and
\* never changes it; a _get that exhausts its attempts leaves the cache as
\* it was; a successful _get with use_cache=True changes only the entry
\* keyed by its own URL; and a _get answered from the cache returns the
\* data of an entry of its own URL that is younger than the time-to-live.
ServedFromCache == gpc = "idle" /\ gpc' = "done"
C25_CacheFrameConditions ==
    [][/\ ServedFromCache
          => /\ guse'
             /\ cache[GetCacheKey(gurl')].present
             /\ now - cache[GetCacheKey(gurl')].timestamp < CacheTimeout
             /\ gret' = Some(cache[GetCacheKey(gurl')].data)
             /\ cache' = cache
       /\ (gpc # "idle" /\ ~guse) => cache' = cache
       /\ (gpc = "request" /\ gpc' = "done" /\ gret' = None) => cache' = cache
       /\ (gpc = "request" /\ cache' # cache)
          => /\ guse /\ gpc' = "done" /\ gret'.kind = "json"
             /\ \A k \in CacheKeys \ {GetCacheKey(gurl)} : cache'[k] = cache[k]
             /\ cache'[GetCacheKey(gurl)] = Entry(gret'.body, now)]_vars
\* A call with use_cache=True is making a request although the cache holds
\* an entry of its URL with a body that is not empty, because that entry is
\* as old as the time-to-live or older.
C25_Witness ==
    /\ gpc = "request" /\ guse
    /\ cache[GetCacheKey(gurl)].present
    /\ Truthy(cache[GetCacheKey(gurl)].data)
    /\ now - cache[GetCacheKey(gurl)].timestamp >= CacheTimeout

\* C24: _extract_version_id never raises: for every URL and every body the
\* metadata API returns, the call ends with None or a version id.
C24_NoRaiseOnExpectedFailures == evpc = "done" => evres.kind # "raise"

\* C26: the entry a monitoring thread appends to urls carries the name and
\* the note of the tunnel whose subprocess the thread reads; urls never has
\* more entries than tunnel_list, and has as many only when every queued
\* tunnel has an entry under its own name.
C26_UrlAttribution ==
    [][/\ \A i \in TunnelThreads :
            (tpc[i] = "read" /\ tpc'[i] # "read" /\ Len(urls') = Len(urls) + 1)
            => /\ urls'[Len(urls')].name = tunnel_list[i].name
               /\ urls'[Len(urls')].note = tunnel_list[i].note
       /\ Len(urls') <= Len(tunnel_list')
       /\ Len(urls') = Len(tunnel_list')
          => \A k \in DOMAIN tunnel_list' :
                tunnel_list'[k].name \in UrlNames(urls')]_vars

\* C28: a stop() that has set the stop flag eventually returns.
C28_TeardownTerminates == (mpc # "idle") ~> (mpc = "idle")

\* C27: the step with which stop() returns leaves urls, jobs and processes
\* empty, the stop and printed events clear and _is_running False; no step
\* of stop() changes tunnel_list or tunnel_statuses; every start that is
\* accepted, the first and a later one, finds urls and processes empty and
\* the events clear and starts the printer and one thread per tunnel; and
\* stop() on a supervisor that is not running raises and changes nothing.
StopReturns == mpc = "join" /\ mpc' = "idle"
C27_ResetAndRestart ==
    [][/\ StopReturns
          => /\ urls' = << >> /\ jobs' = << >> /\ processes' = << >>
             /\ ~stop_event' /\ ~printed' /\ ~is_running'
       /\ (mpc # "idle" \/ mpc' # "idle")
          => /\ tunnel_list' = tunnel_list
             /\ tunnel_statuses' = tunnel_statuses
       /\ ~(mpc = "idle" /\ ~is_running /\ mpc' # "idle")
       /\ (refused' # refused /\ refused' = "NotRunning")
          => /\ ~is_running
             /\ UNCHANGED <<urls, jobs, processes, stop_event, printed,
                            is_running, tunnel_list, tunnel_statuses, tpc,
                            proc, mpc>>
       /\ nstart' # nstart
          => /\ urls = << >> /\ processes = << >> /\ jobs = << >>
             /\ ~stop_event /\ ~printed
             /\ DOMAIN tpc' = 0..Len(tunnel_list)
             /\ \A i \in DOMAIN tpc' : tpc'[i] = "start"
             /\ jobs' = <<0>> \o [k \in 1..Len(tunnel_list) |-> k]]_vars
\* stop() has returned and the supervisor, started again, has found a URL
\* and started every thread anew.
C27_Witness ==
    /\ nstart = 2 /\ is_running /\ urls # << >>
    /\ \E i \in TunnelThreads : tpc[i] = "read"

\* C29: once stop() has set the stop flag every health-monitor thread that
\* is alive eventually leaves its loop, and at no time are two
\* health-monitor threads alive.
AliveMonitors == {k \in Monitors : hpc[k] # "done"}
C29_MonitorStopsWithSupervisor ==
    /\ [](Cardinality(AliveMonitors) <= 1)
    /\ \A k \in 1..MaxMonitors :
          (stop_event /\ k \in AliveMonitors) ~> (k \notin AliveMonitors)

\* C21: a pass of perform_health_checks probes every tunnel under whose
\* name a URL has been recorded; retry_count changes only in such a pass,
\* by one, for a probed tunnel whose probe failed, then error_message is
\* set and the tunnel is 'failed' once retry_count exceeds max_retries.
HealthPassDone ==
    \E k \in Monitors : hpc[k] = "check" /\ hpc'[k] = "sleep"
C21_HealthCheckRetryBudget ==
    [][/\ HealthPassDone => \A n \in UrlNames(urls) : n \in probed'
       /\ \A n \in TNames :
             tunnel_statuses'[n].retry_count # tunnel_statuses[n].retry_count
             => /\ HealthPassDone
                /\ n \in probed'
                /\ tunnel_statuses'[n].retry_count
                      = tunnel_statuses[n].retry_count + 1
                /\ tunnel_statuses'[n].error_message # << >>
                /\ (tunnel_statuses'[n].retry_count > max_retries
                      => tunnel_statuses'[n].status = "failed")]_vars

\* C22: the configuration add_tunnel stores carries every timeout,
\* retry_limit and security_level the caller passed, whatever the platform.
C22_ExplicitConfigurationWins ==
    fpc = "done"
    => /\ fin.timeout.given => fout.timeout = fin.timeout.v
       /\ fin.retry_limit.given => fout.retry_limit = fin.retry_limit.v
       /\ fin.security_level.given
          => fout.security_level = fin.security_level.v

\* C23: the clean URL _process_url returns has no token parameter; the
\* final URL has the path of the downloadUrl, its parameters other than
\* token, and exactly one token parameter, the client's token.
ParamsOf(url) == ParseQs(UrlParse(url).query)
TokenValues(url) ==
    LET d == SelectSeq(ParamsOf(url), LAMBDA e : e.name = S_token)
    IN IF d = << >> THEN << >> ELSE d[1].values
C23_SignedDownloadUrl ==
    fpc = "done"
    => /\ TokenValues(fout.clean) = << >>
       /\ UrlParse(fout.final).base = UrlParse(fin.url).base
       /\ DictPop(ParamsOf(fout.final), S_token)
             = DictPop(ParamsOf(fin.url), S_token)
       /\ TokenValues(fout.final) = <<ClientToken(fin.token)>>

====
